---- MODULE Spec2Model ----
(***************************************************************************)
(* The rotation engine of server_manger (src/main.go): the domain pool     *)
(* (server_domains), the managed server records (v2_server_* tables), the  *)
(* transaction updateServer, the cron sweep checkAndUpdateServers and the  *)
(* operator handlers that call into them.                                  *)
(*                                                                         *)
(* Every database statement may return an error (the input `fail` of       *)
(* updateServer names the statement that does); a statement that returns   *)
(* an error has no effect on the tables.  math/rand is a nondeterministic  *)
(* draw; an ORDER BY without a secondary key leaves the order of equal     *)
(* keys to the database.                                                   *)
(***************************************************************************)
EXTENDS Integers, Sequences, FiniteSets, TLC

VARIABLES
    servers,              \* the v2_server_* rows: <<table, id>> -> row
    domains,              \* the server_domains rows: id -> row
    nextId,               \* AUTO_INCREMENT of server_domains.id
    clock,                \* time.Now().Unix()
    minPort,              \* global minPort
    maxPort,              \* global maxPort
    updateIntervalHours,  \* global updateIntervalHours
    cron,                 \* the running checkAndUpdateServers, if any
    req,                  \* the running POST /update-now handler, if any
    portReq,              \* the running POST /set-port-range handler, if any
    budget,               \* what the environment may still do (bounds the model)
    releasedAt,           \* history: server_domains id -> now of the committed
                          \* updateServer that last set its in_use from 1 to 0
    ops,                  \* the POST /add-domain and POST /delete-domain handlers:
                          \* the request each runs or ran last, and its response
    txn,                  \* the open transaction of each caller of updateServer
                          \* (used where calls overlap)
    sweepLog,             \* history of the running sweep: the tables when it
                          \* began, and per server how many of its calls of
                          \* updateServer committed
    exhaustedAt           \* history: <<table, id>> -> now of the sweep whose
                          \* three attempts for it failed last

vars == <<servers, domains, nextId, clock, minPort, maxPort, updateIntervalHours,
          cron, req, portReq, budget, releasedAt, ops, txn, sweepLog, exhaustedAt>>

----------------------------------------------------------------------------
(* Bounds of the model. *)

\* Advances of the clock in one behaviour.
MaxTicks == 2
\* Operator requests (add, delete, update-now, set-interval, set-port-range).
MaxRequests == 1
\* Database statements that return an error in one behaviour.
MaxFaults == 1
\* Cron sweeps started in one behaviour.
MaxSweeps == 1
\* Handlers of /add-domain and /delete-domain that run at once.
MaxHandlers == 2
\* Cron sweeps started, and periods of the cron schedule that pass, in one
\* behaviour of the scheduler alone.
MaxSweepsInARow == 2
MaxPeriods == 2

----------------------------------------------------------------------------
(* Program constants. *)

\* now-3*3600: the cooldown of the eligible-domain query, in seconds.
CooldownHours == 3
SecondsPerHour == 3600
Cooldown == CooldownHours * SecondsPerHour
\* for i := 0; i < 100; i++
PortAttempts == 100
\* The retry loop with the bound of the port loop.
RetryLikePortLoop == PortAttempts

\* for attempt := 0; attempt < 3; attempt++
MaxAttempts == 3

\* c.AddFunc("*/5 * * * *", checkAndUpdateServers): seconds between sweeps.
SweepPeriod == 300

Tables == <<"v2_server_vless", "v2_server_shadowsocks", "v2_server_vmess">>
TableSet == {Tables[i] : i \in 1..Len(Tables)}

\* The clock advances by half a cooldown, so that one advance is inside the
\* cooldown and two advances end exactly on it.
TickSecs == Cooldown \div 2
StartTime == 100 * Cooldown

----------------------------------------------------------------------------
(* strconv.Itoa, and the parse that reads it back. *)

Digits == <<"0", "1", "2", "3", "4", "5", "6", "7", "8", "9">>

RECURSIVE Itoa(_)
Itoa(n) ==
    IF n < 0 THEN <<"-">> \o Itoa(0 - n)
    ELSE IF n < 10 THEN <<Digits[n + 1]>>
    ELSE Itoa(n \div 10) \o <<Digits[(n % 10) + 1]>>

DigitValue(c) == CHOOSE d \in 0..9 : Digits[d + 1] = c

RECURSIVE Atoi(_)
Atoi(s) ==
    IF s = <<>> THEN 0
    ELSE IF Head(s) = "-" THEN 0 - Atoi(Tail(s))
    ELSE Atoi(SubSeq(s, 1, Len(s) - 1)) * 10 + DigitValue(s[Len(s)])

----------------------------------------------------------------------------
(* Errors of updateServer, by the statement that returns them (the texts are
   the English of the messages in the source). *)

ErrNil == "nil"
ErrRead == "get server data failed"
ErrRelease == "release domain failed"
ErrPort == "no distinct port"
ErrQuery == "get available domains failed"
ErrNoDomain == "no available domain"
ErrWrite == "update server record failed"
ErrClaim == "mark domain failed"
ErrOrder == "update domain order failed"
ErrCommit == "commit failed"

\* The statement of updateServer that returns an error ("none": no statement).
\* "count" and "maxorder" are the two statements whose error the code drops.
FailPoints == {"none", "read", "count", "release", "query", "write", "claim",
               "maxorder", "bump", "commit"}

StatusSuccess == <<"update succeeded">>
StatusFailed(err) == <<"update failed: ", err>>

----------------------------------------------------------------------------
(* The statements of updateServer on the tables of its transaction.  S is the
   v2_server_* rows, D the server_domains rows. *)

SetToSeqs(E) == {s \in [1..Cardinality(E) -> E] : \A i, j \in DOMAIN s : i # j => s[i] # s[j]}

\* WHERE server_table = ? AND server_id = ? AND domain = ?
HostRows(D, table, id, host) ==
    {e \in DOMAIN D : D[e].server_table = table /\ D[e].server_id = id
                      /\ D[e].domain = host}

\* A release that also resets last_used_time (what the comment on the release
\* step rules out).
ReleaseResetsLastUsed(D, table, id, host) ==
    [e \in DOMAIN D |->
        IF e \in HostRows(D, table, id, host)
        THEN [D[e] EXCEPT !.in_use = 0, !.last_used_time = 0]
        ELSE D[e]]

\* Update("in_use", 0) on the rows of the current host; last_used_time stays.
Release(D, table, id, host) ==
    [e \in DOMAIN D |->
        IF e \in HostRows(D, table, id, host) THEN [D[e] EXCEPT !.in_use = 0] ELSE D[e]]

\* rand.Intn(n) panics for n <= 0 and else returns a value of 0..n-1.
RandIntn(n) == IF n <= 0 THEN {} ELSE 0..(n - 1)

PortDrawn(p) == [kind |-> "port", port |-> p]
PortExhausted == [kind |-> "exhausted", port |-> 0]
PortPanic == [kind |-> "panic", port |-> 0]

\* Iteration i of the redraw loop is reached when every draw before it was
\* currentPort.
Reached(i, currentPort, draws) == i = 0 \/ currentPort \in draws

\* Every way the redraw loop can end: the first rand.Intn panics; or some
\* iteration draws a port other than currentPort (break); or iteration
\* PortAttempts-1 draws currentPort again (the error return).
PickPort(currentPort) ==
    IF maxPort - minPort + 1 <= 0 THEN {PortPanic}
    ELSE LET draws == {r + minPort : r \in RandIntn(maxPort - minPort + 1)}
             iterations == 0..(PortAttempts - 1)
         IN  {PortDrawn(p) : p \in {q \in draws :
                    \E i \in iterations : Reached(i, currentPort, draws) /\ q # currentPort}}
             \cup {PortExhausted : i \in {j \in iterations :
                    /\ j = PortAttempts - 1
                    /\ Reached(j, currentPort, draws)
                    /\ currentPort \in draws}}

\* The query with last_used_time < now-3*3600 for <=.
EligibleStrictCooldown(D, table, id, now, host) ==
    {e \in DOMAIN D :
        /\ D[e].server_table = table
        /\ D[e].server_id = id
        /\ D[e].in_use = 0
        /\ (D[e].last_used_time = 0 \/ D[e].last_used_time < now - Cooldown)
        /\ (host # "" => D[e].domain # host)}

\* The query without its last_used_time clause.
EligibleNoCooldown(D, table, id, now, host) ==
    {e \in DOMAIN D :
        /\ D[e].server_table = table
        /\ D[e].server_id = id
        /\ D[e].in_use = 0
        /\ (host # "" => D[e].domain # host)}

\* The query without its server_table and server_id clauses.
EligibleAnyOwner(D, table, id, now, host) ==
    {e \in DOMAIN D :
        /\ D[e].in_use = 0
        /\ (D[e].last_used_time = 0 \/ D[e].last_used_time <= now - Cooldown)
        /\ (host # "" => D[e].domain # host)}

\* The WHERE clause of the eligible-domain query.
Eligible(D, table, id, now, host) ==
    {e \in DOMAIN D :
        /\ D[e].server_table = table
        /\ D[e].server_id = id
        /\ D[e].in_use = 0
        /\ (D[e].last_used_time = 0 \/ D[e].last_used_time <= now - Cooldown)
        /\ (host # "" => D[e].domain # host)}

\* ORDER BY last_used_time DESC.
OrderByLastUsedDesc(D, E) ==
    {s \in SetToSeqs(E) :
        \A i, j \in DOMAIN s : i < j => D[s[i]].last_used_time >= D[s[j]].last_used_time}

\* ORDER BY last_used_time ASC: every order of the rows that is ascending in
\* last_used_time (the query names no second key).
OrderByLastUsed(D, E) ==
    {s \in SetToSeqs(E) :
        \A i, j \in DOMAIN s : i < j => D[s[i]].last_used_time <= D[s[j]].last_used_time}

\* Find(&availableDomains): the rows as read.
Rows(D, s) == [i \in DOMAIN s |-> D[s[i]]]

\* Updates(port, server_port, host, next_update_time) WHERE id = ?
WriteRecordWithStatus(S, table, id, nextPort, domain, now) ==
    [S EXCEPT ![<<table, id>>] =
        [@ EXCEPT !.port = Itoa(nextPort),
                  !.server_port = nextPort,
                  !.host = domain,
                  !.next_update_time = now + updateIntervalHours * SecondsPerHour,
                  !.last_update_status = <<"update succeeded">>]]

WriteRecord(S, table, id, nextPort, domain, now) ==
    [S EXCEPT ![<<table, id>>] =
        [@ EXCEPT !.port = Itoa(nextPort),
                  !.server_port = nextPort,
                  !.host = domain,
                  !.next_update_time = now + updateIntervalHours * SecondsPerHour]]

\* Updates(in_use = 1, last_used_time = now) WHERE id = nextDomain.ID
Claim(D, eid, now) ==
    [D EXCEPT ![eid] = [@ EXCEPT !.in_use = 1, !.last_used_time = now]]

Max(xs) == IF xs = {} THEN 0 ELSE CHOOSE x \in xs : \A y \in xs : y <= x

\* SELECT MAX(`order`) WHERE server_table = ? AND server_id = ?
MaxOrder(D, table, id) ==
    Max({D[e].order : e \in {x \in DOMAIN D : D[x].server_table = table
                                              /\ D[x].server_id = id}})

\* Update("order", maxDomainOrder+1) WHERE id = nextDomain.ID
BumpOrder(D, eid, maxDomainOrder) ==
    [D EXCEPT ![eid] = [@ EXCEPT !.order = maxDomainOrder + 1]]

\* A return that leaves the writes of the transaction in place.
RollbackKeepsWrites(pre, tx) == tx

\* tx.Rollback(), and a Commit that returns an error: the tables are those of
\* before the transaction.
Rollback(pre, tx) == pre

NoRow == [id |-> 0, server_table |-> "", server_id |-> 0, domain |-> "",
          in_use |-> 0, order |-> 0, last_used_time |-> 0]

----------------------------------------------------------------------------
(* updateServer(table, id, now, useOrder): every way the call can end when the
   statement `fail` returns an error.  A result holds the value returned (err),
   whether the call panicked and was recovered, the tables after the call, and
   the locals of the call. *)

Result(err, S, D, host, port, avail, nextPort, nextDomain, how) ==
    [err |-> err, how |-> how, servers |-> S, domains |-> D, host |-> host,
     port |-> port, avail |-> avail, nextPort |-> nextPort, nextDomain |-> nextDomain]

\* An error return that undoes the writes to the server tables only.
FailedKeepsRelease(err, S, D, txS, txD, host, port, avail, nextPort, nextDomain) ==
    Result(err, S, txD, host, port, avail, nextPort, nextDomain, "rollback")

\* return fmt.Errorf(...) after tx.Rollback()
Failed(err, S, D, txS, txD, host, port, avail, nextPort, nextDomain) ==
    Result(err, Rollback(S, txS), Rollback(D, txD), host, port, avail, nextPort,
           nextDomain, "rollback")

\* From the record write to the commit.
WriteAndCommit(S, D, D1, table, id, now, useOrder, fail, host, port, avail, nextPort) ==
    LET nextDomain == avail[1]
        S1 == WriteRecord(S, table, id, nextPort, nextDomain.domain, now)
        D2 == Claim(D1, nextDomain.id, now)
        maxDomainOrder == IF fail = "maxorder" THEN 0 ELSE MaxOrder(D2, table, id)
        D3 == IF useOrder THEN BumpOrder(D2, nextDomain.id, maxDomainOrder) ELSE D2
    IN  IF fail = "write"
        THEN Failed(ErrWrite, S, D, S, D1, host, port, avail, nextPort, nextDomain)
        ELSE IF fail = "claim"
        THEN Failed(ErrClaim, S, D, S1, D1, host, port, avail, nextPort, nextDomain)
        ELSE IF useOrder /\ fail = "bump"
        THEN Failed(ErrOrder, S, D, S1, D2, host, port, avail, nextPort, nextDomain)
        ELSE IF fail = "commit"
        THEN Failed(ErrCommit, S, D, S1, D3, host, port, avail, nextPort, nextDomain)
        ELSE Result(ErrNil, S1, D3, host, port, avail, nextPort, nextDomain, "commit")

\* From the eligible-domain query on.
SelectAndWrite(S, D, D1, table, id, now, useOrder, fail, host, port, nextPort) ==
    IF fail = "query"
    THEN {Failed(ErrQuery, S, D, S, D1, host, port, <<>>, nextPort, NoRow)}
    ELSE LET E == Eligible(D1, table, id, now, host)
         IN  IF E = {}
             THEN {Failed(ErrNoDomain, S, D, S, D1, host, port, <<>>, nextPort, NoRow)}
             ELSE {WriteAndCommit(S, D, D1, table, id, now, useOrder, fail, host, port,
                                  Rows(D1, s), nextPort) : s \in OrderByLastUsed(D1, E)}

\* From the port loop on.
DrawAndSelect(S, D, D1, table, id, now, useOrder, fail, host, port) ==
    UNION {
        IF pick.kind = "panic"
        THEN {Result(ErrNil, Rollback(S, S), Rollback(D, D1), host, port, <<>>, 0, NoRow,
                     "panic")}
        ELSE IF pick.kind = "exhausted"
        THEN {Failed(ErrPort, S, D, S, D1, host, port, <<>>, pick.port, NoRow)}
        ELSE SelectAndWrite(S, D, D1, table, id, now, useOrder, fail, host, port, pick.port)
        : pick \in PickPort(port)}

\* A call that returns the release error when the host has no pool row.
UpdateServerMissingHostFails(S, D, table, id, now, useOrder, fail) ==
    IF <<table, id>> \notin DOMAIN S \/ fail = "read"
    THEN {Failed(ErrRead, S, D, S, D, "", 0, <<>>, 0, NoRow)}
    ELSE LET currentServer == S[<<table, id>>]
             host == currentServer.host
             domainCount == IF fail = "count" THEN 0
                            ELSE Cardinality(HostRows(D, table, id, host))
             releases == host # "" /\ domainCount # 0
         IN  IF host # "" /\ (domainCount = 0 \/ fail = "release")
             THEN {Failed(ErrRelease, S, D, S, D, host, currentServer.server_port, <<>>, 0,
                          NoRow)}
             ELSE DrawAndSelect(S, D, IF releases THEN Release(D, table, id, host) ELSE D,
                                table, id, now, useOrder, fail, host,
                                currentServer.server_port)

UpdateServer(S, D, table, id, now, useOrder, fail) ==
    IF <<table, id>> \notin DOMAIN S \/ fail = "read"
    THEN {Failed(ErrRead, S, D, S, D, "", 0, <<>>, 0, NoRow)}
    ELSE LET currentServer == S[<<table, id>>]
             host == currentServer.host
             domainCount == IF fail = "count" THEN 0
                            ELSE Cardinality(HostRows(D, table, id, host))
             releases == host # "" /\ domainCount # 0
         IN  IF releases /\ fail = "release"
             THEN {Failed(ErrRelease, S, D, S, D, host, currentServer.server_port, <<>>, 0,
                          NoRow)}
             ELSE DrawAndSelect(S, D, IF releases THEN Release(D, table, id, host) ELSE D,
                                table, id, now, useOrder, fail, host,
                                currentServer.server_port)

----------------------------------------------------------------------------
(* The state after main has run: the rows the surrounding inventory holds, the
   pool after initUsedResources, the configuration as read by viper. *)

Vless == Tables[1]
Shadowsocks == Tables[2]

ServerRow(port, host) ==
    [port |-> Itoa(port), server_port |-> port, host |-> host,
     next_update_time |-> 0, last_update_status |-> <<>>]

DomainRow(eid, table, id, domain, order) ==
    [id |-> eid, server_table |-> table, server_id |-> id, domain |-> domain,
     in_use |-> 0, order |-> order, last_used_time |-> 0]

\* Hosts the second server may have at start: one of its pool, none, or one
\* with no pool row.
InitialHosts == {"e1.example", "", "gone.example"}
\* What the configuration file may set server.updateIntervalHours to (install.sh
\* writes no such key, and viper.GetInt then returns 0).
InitialIntervals == {0, 1}

\* in_use = 0 and last_used_time = 0 everywhere, then in_use = 1 and
\* last_used_time = now on the row of every server's host.
InitUsedResources(S, D, now) ==
    [e \in DOMAIN D |->
        IF \E k \in DOMAIN S : /\ S[k].host # ""
                               /\ k = <<D[e].server_table, D[e].server_id>>
                               /\ S[k].host = D[e].domain
        THEN [D[e] EXCEPT !.in_use = 1, !.last_used_time = now]
        ELSE [D[e] EXCEPT !.in_use = 0, !.last_used_time = 0]]

NoRes == [err |-> ErrNil, how |-> "none", host |-> "", port |-> 0, avail |-> <<>>,
          nextPort |-> 0, nextDomain |-> NoRow]

\* The locals of a call that its caller and the log see.
Locals(r) ==
    [err |-> r.err, how |-> r.how, host |-> r.host, port |-> r.port, avail |-> r.avail,
     nextPort |-> r.nextPort, nextDomain |-> r.nextDomain]

CronIdle == [pc |-> "idle", now |-> 0, ti |-> 0, queue |-> <<>>, attempt |-> 0,
             res |-> NoRes]
ReqIdle == [pc |-> "idle", table |-> "", id |-> 0, now |-> 0, res |-> NoRes]
PortReqIdle == [pc |-> "idle", max |-> 0]

\* No transaction is open.  An open one holds the tables as it sees them (S,
\* D: its snapshot and its own writes), the rows it has locked, and the locals
\* of the call.
TxIdle == [pc |-> "idle", S |-> <<>>, D |-> <<>>, lockS |-> {}, lockD |-> {},
           host |-> "", port |-> 0, avail |-> <<>>, nextPort |-> 0, nextDomain |-> NoRow]

\* The callers of updateServer: the cron job and the /update-now handler.
Callers == {"cron", "req"}
\* The handlers of /add-domain and /delete-domain: Handlers[1] runs every
\* request where requests do not overlap.
Handlers == 1..MaxHandlers

\* The responses of /add-domain and /delete-domain (the English of the
\* messages in the source).
AddInvalid == "domain must not be empty"
AddDuplicate == "domain exists"
AddFailed == "add domain failed"
AddOk == "domain added"
DeleteNotFound == "domain does not exist"
DeleteInUse == "cannot delete a domain in use"
DeleteCurrentHost == "cannot delete the domain the server uses"
DeleteFailed == "delete domain failed"
DeleteOk == "domain deleted"

\* A handler: the request (op, table, id, domain or domainID), where it is
\* (pc), what it has read (row, host, maxOrder) and its response (result).
OpIdle == [op |-> "none", pc |-> "done", table |-> "", id |-> 0, domain |-> "",
           domainID |-> 0, row |-> NoRow, host |-> "", maxOrder |-> 0, result |-> ""]

\* A handler that has answered.
OpDone(op, table, id, domain, domainID, result) ==
    [OpIdle EXCEPT !.op = op, !.table = table, !.id = id, !.domain = domain,
                   !.domainID = domainID, !.result = result]

\* The state after main with the budget b.
Start(b) ==
    /\ \E h \in InitialHosts :
          LET S == (<<Vless, 1>> :> ServerRow(9, "d1.example"))
                   @@ (<<Shadowsocks, 1>> :> ServerRow(10, h))
              D == (1 :> DomainRow(1, Vless, 1, "d1.example", 1))
                   @@ (2 :> DomainRow(2, Vless, 1, "d2.example", 2))
                   @@ (3 :> DomainRow(3, Vless, 1, "d3.example", 3))
                   @@ (4 :> DomainRow(4, Shadowsocks, 1, "e1.example", 1))
                   @@ (5 :> DomainRow(5, Shadowsocks, 1, "e2.example", 2))
          IN  /\ servers = S
              /\ domains = InitUsedResources(S, D, StartTime)
    /\ nextId = 6
    /\ clock = StartTime
    /\ minPort = 9
    /\ maxPort = 10
    /\ updateIntervalHours \in InitialIntervals
    /\ cron = CronIdle
    /\ req = ReqIdle
    /\ portReq = PortReqIdle
    /\ budget = b
    /\ releasedAt = <<>>
    /\ ops = [h \in Handlers |-> OpIdle]
    /\ txn = [c \in Callers |-> TxIdle]
    /\ sweepLog = <<>>
    /\ exhaustedAt = <<>>

Init == Start([requests |-> MaxRequests, faults |-> MaxFaults, sweeps |-> MaxSweeps])

\* The history of releases after a call at `now` that took the pool from D to D1.
Released(D, D1) == {e \in DOMAIN D : D[e].in_use = 1 /\ D1[e].in_use = 0}
NoteReleases(D, D1, now) == [e \in Released(D, D1) |-> now] @@ releasedAt

\* A statement may return an error while the fault budget lasts.
MayFail(fail) == fail = "none" \/ budget.faults > 0
Spend(b, fail) == IF fail = "none" THEN b ELSE [b EXCEPT !.faults = @ - 1]

----------------------------------------------------------------------------
(* time.Now() moves on. *)

\* No sweep and no request is running: operations do not overlap, but for a
\* set-port-range between its two assignments.
Idle == cron.pc = "idle" /\ req.pc = "idle"

Tick ==
    /\ Idle /\ portReq.pc = "idle"
    /\ clock < StartTime + MaxTicks * TickSecs
    /\ clock' = clock + TickSecs
    /\ UNCHANGED <<servers, domains, nextId, minPort, maxPort, updateIntervalHours,
                   cron, req, portReq, budget, releasedAt>>
    /\ UNCHANGED <<ops, txn, sweepLog, exhaustedAt>>

----------------------------------------------------------------------------
(* checkAndUpdateServers: the cron sweep. *)

\* A query that returns only the servers that were never rotated.
DueServersNeverRotated(S, table, now) ==
    SetToSeqs({k[2] : k \in {x \in DOMAIN S : x[1] = table
                                             /\ S[x].next_update_time = 0}})

\* Where("next_update_time <= ?", now).Find(&servers) on one table: the ids, in
\* an order the query leaves to the database.
DueServers(S, table, now) ==
    SetToSeqs({k[2] : k \in {x \in DOMAIN S : x[1] = table
                                             /\ S[x].next_update_time <= now}})

\* A loop over the tables that ends at the first query that returns an error.
RECURSIVE NextTableReturnsOnError(_, _, _, _)
NextTableReturnsOnError(S, now, ti, qfail) ==
    IF ti > Len(Tables) \/ ti \in qfail THEN {[ti |-> 0, queue |-> <<>>]}
    ELSE LET qs == DueServers(S, Tables[ti], now) \ {<<>>}
         IN  IF qs = {} THEN NextTableReturnsOnError(S, now, ti + 1, qfail)
             ELSE {[ti |-> ti, queue |-> q] : q \in qs}

\* The loop over the tables from table ti on, up to the first table with due
\* servers; the query of a table in qfail returns an error (continue).
RECURSIVE NextTable(_, _, _, _)
NextTable(S, now, ti, qfail) ==
    IF ti > Len(Tables) THEN {[ti |-> 0, queue |-> <<>>]}
    ELSE IF ti \in qfail THEN NextTable(S, now, ti + 1, qfail)
    ELSE LET qs == DueServers(S, Tables[ti], now) \ {<<>>}
         IN  IF qs = {} THEN NextTable(S, now, ti + 1, qfail)
             ELSE {[ti |-> ti, queue |-> q] : q \in qs}

QueryFaults == {{}} \cup {{i} : i \in 1..Len(Tables)}

\* History: the tables from `from` on whose query returned an error before
\* the loop came to table ti (to its end, when ti = 0).
FailedQueries(qfail, from, ti) ==
    {i \in qfail : from <= i /\ (ti = 0 \/ i < ti)}

\* The sweep goes on with the work w, or ends.
CronGoOn(now, w) ==
    IF w.ti = 0 THEN CronIdle
    ELSE [pc |-> "attempt", now |-> now, ti |-> w.ti, queue |-> w.queue, attempt |-> 0,
          res |-> NoRes]

CronStart ==
    /\ Idle
    /\ budget.sweeps > 0
    /\ \E qfail \in QueryFaults :
          /\ qfail = {} \/ budget.faults > 0
          /\ \E w \in NextTable(servers, clock, 1, qfail) :
                /\ cron' = CronGoOn(clock, w)
                /\ sweepLog' = IF w.ti = 0 THEN <<>>
                               ELSE [servers |-> servers, domains |-> domains,
                                     committed |-> <<>>,
                                     failed |-> FailedQueries(qfail, 1, w.ti)]
          /\ budget' = [Spend(budget, IF qfail = {} THEN "none" ELSE "query")
                            EXCEPT !.sweeps = @ - 1]
    /\ UNCHANGED <<servers, domains, nextId, clock, minPort, maxPort,
                   updateIntervalHours, req, portReq, releasedAt>>
    /\ UNCHANGED <<ops, txn, exhaustedAt>>

\* The history of the sweep after one more call for the server k.
Counted(f, k, n) == (k :> ((IF k \in DOMAIN f THEN f[k] ELSE 0) + n)) @@ f
NoteAttempt(log, k, committed) ==
    [log EXCEPT !.committed = Counted(@, k, IF committed THEN 1 ELSE 0)]

\* err = updateServer(table, s.ID, now, true), and the loop's test of err.
CronAttempt ==
    /\ cron.pc = "attempt"
    /\ \E fail \in FailPoints :
          /\ MayFail(fail)
          /\ \E r \in UpdateServer(servers, domains, Tables[cron.ti], Head(cron.queue),
                                   cron.now, TRUE, fail) :
                /\ servers' = r.servers
                /\ domains' = r.domains
                /\ releasedAt' = NoteReleases(domains, r.domains, cron.now)
                /\ sweepLog' = NoteAttempt(sweepLog, <<Tables[cron.ti], Head(cron.queue)>>,
                                           r.how = "commit")
                /\ cron' = [cron EXCEPT
                              !.attempt = @ + 1,
                              !.res = Locals(r),
                              !.pc = IF r.err = ErrNil \/ cron.attempt + 1 >= MaxAttempts
                                     THEN "status" ELSE "attempt"]
          /\ budget' = Spend(budget, fail)
    /\ UNCHANGED <<nextId, clock, minPort, maxPort, updateIntervalHours, req, portReq>>
    /\ UNCHANGED <<ops, txn, exhaustedAt>>

\* A status write that reports success whatever the call returned.
WriteStatusAlwaysSuccess(S, table, id, status) ==
    IF <<table, id>> \in DOMAIN S
    THEN [S EXCEPT ![<<table, id>>] = [@ EXCEPT !.last_update_status = StatusSuccess]]
    ELSE S

\* Update("last_update_status", ...) WHERE id = ?
WriteStatus(S, table, id, status) ==
    IF <<table, id>> \in DOMAIN S
    THEN [S EXCEPT ![<<table, id>>] = [@ EXCEPT !.last_update_status = status]]
    ELSE S

\* The write after three failed attempts without next_update_time.
WriteExhaustedStatusOnly(S, table, id, err, now) ==
    IF <<table, id>> \in DOMAIN S
    THEN [S EXCEPT ![<<table, id>>] = [@ EXCEPT !.last_update_status = StatusFailed(err)]]
    ELSE S

\* Updates(last_update_status, next_update_time) after three failed attempts.
WriteExhausted(S, table, id, err, now) ==
    IF <<table, id>> \in DOMAIN S
    THEN [S EXCEPT ![<<table, id>>] =
            [@ EXCEPT !.last_update_status = StatusFailed(err),
                      !.next_update_time = now + updateIntervalHours * SecondsPerHour]]
    ELSE S

\* The write of last_update_status after the attempts of one server, then the
\* next server of the table or the next table.
CronStatus ==
    /\ cron.pc = "status"
    /\ \E wfail \in BOOLEAN, qfail \in QueryFaults :
          LET table == Tables[cron.ti]
              id == Head(cron.queue)
              S1 == IF wfail THEN servers
                    ELSE IF cron.res.err = ErrNil
                    THEN WriteStatus(servers, table, id, StatusSuccess)
                    ELSE WriteExhausted(servers, table, id, cron.res.err, cron.now)
              rest == Tail(cron.queue)
          IN  /\ (wfail \/ qfail # {}) => budget.faults > 0
              /\ ~(wfail /\ qfail # {})
              /\ rest # <<>> => qfail = {}
              /\ servers' = S1
              /\ IF rest # <<>>
                 THEN cron' = CronGoOn(cron.now, [ti |-> cron.ti, queue |-> rest])
                 ELSE \E w \in NextTable(S1, cron.now, cron.ti + 1, qfail) :
                         cron' = CronGoOn(cron.now, w)
              /\ sweepLog' = IF cron'.pc = "idle" THEN <<>>
                             ELSE IF rest # <<>> THEN sweepLog
                             ELSE [sweepLog EXCEPT !.failed =
                                     @ \cup FailedQueries(qfail, cron.ti + 1, cron'.ti)]
              /\ exhaustedAt' = IF cron.res.err = ErrNil THEN exhaustedAt
                                ELSE (<<table, id>> :> cron.now) @@ exhaustedAt
              /\ budget' = Spend(budget, IF wfail \/ qfail # {} THEN "write" ELSE "none")
    /\ UNCHANGED <<domains, nextId, clock, minPort, maxPort, updateIntervalHours, req,
                   portReq, releasedAt>>
    /\ UNCHANGED <<ops, txn>>

----------------------------------------------------------------------------
(* POST /update-now *)

\* The servers an operator names in a request; no table holds a server 2.
RequestTargets == {<<Tables[1], 1>>, <<Tables[2], 1>>, <<Tables[1], 2>>}

\* now := time.Now().Unix(); updateServer(table, id, now, false)
UpdateNowCall ==
    /\ Idle
    /\ budget.requests > 0
    /\ \E target \in RequestTargets, fail \in FailPoints :
          LET table == target[1]
              id == target[2]
          IN
          /\ id > 0 /\ table \in TableSet
          /\ MayFail(fail)
          /\ \E r \in UpdateServer(servers, domains, table, id, clock, FALSE, fail) :
                /\ servers' = r.servers
                /\ domains' = r.domains
                /\ releasedAt' = NoteReleases(domains, r.domains, clock)
                /\ req' = [pc |-> "status", table |-> table, id |-> id, now |-> clock,
                           res |-> Locals(r)]
          /\ budget' = [Spend(budget, fail) EXCEPT !.requests = @ - 1]
    /\ UNCHANGED <<nextId, clock, minPort, maxPort, updateIntervalHours, cron, portReq>>
    /\ UNCHANGED <<ops, txn, sweepLog, exhaustedAt>>

\* The handler's write of last_update_status, by the value the call returned.
UpdateNowStatus ==
    /\ req.pc = "status"
    /\ \E wfail \in BOOLEAN :
          /\ wfail => budget.faults > 0
          /\ servers' = IF wfail THEN servers
                        ELSE WriteStatus(servers, req.table, req.id,
                                         IF req.res.err = ErrNil THEN StatusSuccess
                                         ELSE StatusFailed(req.res.err))
          /\ budget' = Spend(budget, IF wfail THEN "write" ELSE "none")
    /\ req' = ReqIdle
    /\ UNCHANGED <<domains, nextId, clock, minPort, maxPort, updateIntervalHours, cron,
                   portReq, releasedAt>>
    /\ UNCHANGED <<ops, txn, sweepLog, exhaustedAt>>

----------------------------------------------------------------------------
(* POST /add-domain and POST /delete-domain *)

\* Domains an operator asks to add: one in the pool, one new, one that a server
\* may have as host with no pool row, and the empty one.
AddableDomains == {"d2.example", "n1.example", "gone.example", ""}

\* A table without the unique index.
NoUniqueIndex(D, domain) == TRUE

\* The unique index unique_domain_per_server, which is on the column domain.
UniqueDomain(D, domain) == \A e \in DOMAIN D : D[e].domain # domain

\* The statements of the add handler that a request with these arguments
\* reaches: First (316), the MAX(order) query (322), Create (331).
AddReaches(D, table, id, domain) ==
    IF domain = "" THEN {}
    ELSE IF HostRows(D, table, id, domain) # {} THEN {"first"}
    ELSE {"first", "max", "create"}

\* The response of the handler: empty domain (310-314), the row exists
\* (316-320: First returned no error), Create returns an error (331-335), or
\* success.
AddResult(D, table, id, domain, fail) ==
    IF domain = "" THEN AddInvalid
    ELSE IF fail # "first" /\ HostRows(D, table, id, domain) # {} THEN AddDuplicate
    ELSE IF fail = "create" \/ ~UniqueDomain(D, domain) THEN AddFailed
    ELSE AddOk

\* maxOrder (321-322): the error of Scan is not read, maxOrder stays 0.
AddMaxOrder(D, table, id, fail) ==
    IF fail = "max" THEN 0 ELSE MaxOrder(D, table, id)

\* newDomain (323-330).
NewDomain(nid, table, id, domain, maxOrder) ==
    [DomainRow(nid, table, id, domain, maxOrder + 1) EXCEPT !.in_use = 0]

AddDomain ==
    /\ Idle /\ portReq.pc = "idle"
    /\ budget.requests > 0
    /\ \E target \in RequestTargets, domain \in AddableDomains,
          fail \in {"none", "first", "max", "create"} :
          LET table == target[1]
              id == target[2]
              result == AddResult(domains, table, id, domain, fail)
          IN
          /\ id > 0 /\ table \in TableSet
          /\ MayFail(fail)
          /\ fail \in {"none"} \cup AddReaches(domains, table, id, domain)
          /\ IF result = AddOk
             THEN /\ domains' = domains @@
                       (nextId :> NewDomain(nextId, table, id, domain,
                                            AddMaxOrder(domains, table, id, fail)))
                  /\ nextId' = nextId + 1
             ELSE UNCHANGED <<domains, nextId>>
          /\ ops' = [ops EXCEPT ![1] = OpDone("add", table, id, domain, 0, result)]
          /\ budget' = [Spend(budget, fail) EXCEPT !.requests = @ - 1]
    /\ UNCHANGED <<servers, clock, minPort, maxPort, updateIntervalHours, cron, req,
                   portReq, releasedAt>>
    /\ UNCHANGED <<txn, sweepLog, exhaustedAt>>

\* First (378): the row with this id of this server.
FoundRow(D, table, id, domainID) ==
    /\ domainID \in DOMAIN D
    /\ D[domainID].server_table = table
    /\ D[domainID].server_id = id

\* The host guard (391): the read returned no error and the host is the
\* domain of the row.
IsHost(S, row, table, id) ==
    <<table, id>> \in DOMAIN S /\ S[<<table, id>>].host = row.domain

\* The statements of the delete handler that a request with these arguments
\* reaches: First (378), the read of host (391), Delete (396).
DeleteReaches(S, D, table, id, domainID) ==
    IF ~FoundRow(D, table, id, domainID) \/ D[domainID].in_use = 1 THEN {"first"}
    ELSE IF IsHost(S, D[domainID], table, id) THEN {"first", "host"}
    ELSE {"first", "host", "delete"}

\* The response of the handler: no such row of this server (378-382: First
\* returned an error), row in use (383-387), row of the server's host
\* (391-395), Delete returns an error (396-400), or success.
DeleteResult(S, D, table, id, domainID, fail) ==
    IF fail = "first" \/ ~FoundRow(D, table, id, domainID) THEN DeleteNotFound
    ELSE IF D[domainID].in_use = 1 THEN DeleteInUse
    ELSE IF fail # "host" /\ IsHost(S, D[domainID], table, id) THEN DeleteCurrentHost
    ELSE IF fail = "delete" THEN DeleteFailed
    ELSE DeleteOk

\* Delete(&ServerDomain{}, "id = ? AND server_table = ? AND server_id = ?").
DeleteRow(D, table, id, domainID) ==
    [e \in {x \in DOMAIN D : ~(x = domainID /\ D[x].server_table = table
                                 /\ D[x].server_id = id)} |-> D[e]]

DeleteDomain ==
    /\ Idle /\ portReq.pc = "idle"
    /\ budget.requests > 0
    /\ \E target \in RequestTargets, domainID \in 1..(nextId - 1),
          fail \in {"none", "first", "host", "delete"} :
          LET table == target[1]
              id == target[2]
              result == DeleteResult(servers, domains, table, id, domainID, fail)
          IN
          /\ id > 0 /\ domainID > 0 /\ table \in TableSet
          /\ MayFail(fail)
          /\ fail \in {"none"} \cup DeleteReaches(servers, domains, table, id, domainID)
          /\ domains' = IF result = DeleteOk
                        THEN DeleteRow(domains, table, id, domainID)
                        ELSE domains
          /\ ops' = [ops EXCEPT ![1] =
                        OpDone("delete", table, id, "", domainID, result)]
          /\ budget' = [Spend(budget, fail) EXCEPT !.requests = @ - 1]
    /\ UNCHANGED <<servers, nextId, clock, minPort, maxPort, updateIntervalHours, cron,
                   req, portReq, releasedAt>>
    /\ UNCHANGED <<txn, sweepLog, exhaustedAt>>

----------------------------------------------------------------------------
(* POST /set-interval and POST /set-port-range *)

RequestedIntervals == {0, 2}

\* Update("next_update_time", newNextUpdateTime) on the tables before table k;
\* the update of table k returns an error (k past the last table: none does).
SetInterval ==
    /\ Idle /\ portReq.pc = "idle"
    /\ budget.requests > 0
    /\ \E interval \in RequestedIntervals, k \in 1..(Len(Tables) + 1) :
          /\ k <= Len(Tables) => budget.faults > 0
          /\ IF interval <= 0
             THEN UNCHANGED <<updateIntervalHours, servers>>
             ELSE /\ updateIntervalHours' = interval
                  /\ servers' = [x \in DOMAIN servers |->
                        IF \E i \in 1..(k - 1) : Tables[i] = x[1]
                        THEN [servers[x] EXCEPT !.next_update_time =
                                                   clock + interval * SecondsPerHour]
                        ELSE servers[x]]
          /\ budget' = [Spend(budget, IF k <= Len(Tables) THEN "update" ELSE "none")
                            EXCEPT !.requests = @ - 1]
    /\ UNCHANGED <<domains, nextId, clock, minPort, maxPort, cron, req, portReq,
                   releasedAt>>
    /\ UNCHANGED <<ops, txn, sweepLog, exhaustedAt>>

\* Ranges an operator asks for: <<min_port, max_port>>.
RequestedRanges == {<<10, 10>>, <<11, 12>>}

\* The validation and minPort = min.
SetPortRangeMin ==
    /\ Idle /\ portReq.pc = "idle"
    /\ budget.requests > 0
    /\ \E range \in RequestedRanges :
          LET min == range[1]
              max == range[2]
          IN  IF min <= 0 \/ max <= 0 \/ max <= min
              THEN UNCHANGED <<minPort, portReq>>
              ELSE /\ minPort' = min
                   /\ portReq' = [pc |-> "max", max |-> max]
    /\ budget' = [budget EXCEPT !.requests = @ - 1]
    /\ UNCHANGED <<servers, domains, nextId, clock, maxPort, updateIntervalHours, cron,
                   req, releasedAt>>
    /\ UNCHANGED <<ops, txn, sweepLog, exhaustedAt>>

\* maxPort = max
SetPortRangeMax ==
    /\ portReq.pc = "max"
    /\ maxPort' = portReq.max
    /\ portReq' = PortReqIdle
    /\ UNCHANGED <<servers, domains, nextId, clock, minPort, updateIntervalHours, cron,
                   req, budget, releasedAt>>
    /\ UNCHANGED <<ops, txn, sweepLog, exhaustedAt>>

----------------------------------------------------------------------------

Next ==
    \/ Tick
    \/ CronStart
    \/ CronAttempt
    \/ CronStatus
    \/ UpdateNowCall
    \/ UpdateNowStatus
    \/ AddDomain
    \/ DeleteDomain
    \/ SetInterval
    \/ SetPortRangeMin
    \/ SetPortRangeMax

Spec == Init /\ [][Next]_vars

----------------------------------------------------------------------------
(* Overlapping operations.  gin runs every request in its own goroutine and
   the cron job runs in another, so the statements of a sweep, of an
   /update-now request and of /add-domain and /delete-domain requests
   interleave.  The store is MySQL (InnoDB, REPEATABLE READ): the reads of a
   transaction see the snapshot taken at its first read and its own writes; an
   UPDATE reads the rows as committed, locks the rows it changes until the
   transaction ends, and waits while another transaction holds one of them; a
   statement outside a transaction sees the committed rows.  No statement
   returns a store error here. *)

MaxConcRequests == 1
MaxConcSweeps == 1

\* The arguments of the call a caller is in.
Call(c) ==
    IF c = "cron"
    THEN [table |-> Tables[cron.ti], id |-> Head(cron.queue), now |-> cron.now,
          useOrder |-> TRUE]
    ELSE [table |-> req.table, id |-> req.id, now |-> req.now, useOrder |-> FALSE]

Calling(c) == IF c = "cron" THEN cron.pc = "attempt" ELSE req.pc = "call"

\* The rows locked by the transactions of the callers cs.
LockedS(cs) == UNION {txn[c].lockS : c \in cs}
LockedD(cs) == UNION {txn[c].lockD : c \in cs}

\* The locals of a transaction that its caller and the log see.
TxRes(t, err, how) ==
    [err |-> err, how |-> how, host |-> t.host, port |-> t.port, avail |-> t.avail,
     nextPort |-> t.nextPort, nextDomain |-> t.nextDomain]

\* updateServer returns res to its caller: the retry loop of the sweep (642-
\* 653), or the /update-now handler (460).
Returned(c, res) ==
    IF c = "cron"
    THEN /\ cron' = [cron EXCEPT
                       !.attempt = @ + 1,
                       !.res = res,
                       !.pc = IF res.err = ErrNil \/ cron.attempt + 1 >= MaxAttempts
                              THEN "status" ELSE "attempt"]
         /\ sweepLog' = NoteAttempt(sweepLog, <<Tables[cron.ti], Head(cron.queue)>>,
                                    res.how = "commit")
         /\ req' = req
    ELSE /\ req' = [req EXCEPT !.pc = "status", !.res = res]
         /\ UNCHANGED <<cron, sweepLog>>

\* POST /update-now up to the call: now := time.Now().Unix().
UpdateNowBegin ==
    /\ req.pc = "idle"
    /\ budget.requests > 0
    /\ \E target \in RequestTargets :
          /\ target[2] > 0 /\ target[1] \in TableSet
          /\ req' = [pc |-> "call", table |-> target[1], id |-> target[2], now |-> clock,
                     res |-> NoRes]
    /\ budget' = [budget EXCEPT !.requests = @ - 1]
    /\ UNCHANGED <<servers, domains, nextId, clock, minPort, maxPort,
                   updateIntervalHours, cron, portReq, releasedAt>>
    /\ UNCHANGED <<ops, txn, sweepLog, exhaustedAt>>

\* tx := db.Begin() (669), the read of the server row (683), which takes the
\* snapshot, and the count of the rows of its host (694).
TxBegin(c) ==
    /\ Calling(c)
    /\ txn[c].pc = "idle"
    /\ LET a == Call(c)
           k == <<a.table, a.id>>
       IN  IF k \notin DOMAIN servers
           THEN /\ Returned(c, TxRes(TxIdle, ErrRead, "rollback"))
                /\ txn' = txn
           ELSE LET host == servers[k].host
                    domainCount == Cardinality(HostRows(domains, a.table, a.id, host))
                IN  /\ txn' = [txn EXCEPT ![c] =
                                 [TxIdle EXCEPT
                                    !.pc = IF host # "" /\ domainCount # 0
                                           THEN "release" ELSE "select",
                                    !.S = servers, !.D = domains,
                                    !.host = host, !.port = servers[k].server_port]]
                    /\ UNCHANGED <<cron, req, sweepLog>>
    /\ UNCHANGED <<servers, domains, nextId, clock, minPort, maxPort,
                   updateIntervalHours, portReq, budget, releasedAt>>
    /\ UNCHANGED <<ops, exhaustedAt>>

\* The rows R (id -> row) that an UPDATE has changed, written into the view V
\* of the transaction.
Updated(V, R) ==
    [e \in DOMAIN V \cup DOMAIN R |-> IF e \in DOMAIN R THEN R[e] ELSE V[e]]

\* Update("in_use", 0) on the rows of the host (698): the rows as committed.
TxRelease(c) ==
    /\ txn[c].pc = "release"
    /\ LET a == Call(c)
           rows == HostRows(domains, a.table, a.id, txn[c].host)
       IN  /\ rows \cap LockedD(Callers \ {c}) = {}
           /\ txn' = [txn EXCEPT ![c] =
                        [@ EXCEPT !.pc = "select",
                                  !.D = Updated(@, [e \in rows |->
                                                      [domains[e] EXCEPT !.in_use = 0]]),
                                  !.lockD = @ \cup rows]]
    /\ UNCHANGED <<servers, domains, nextId, clock, minPort, maxPort,
                   updateIntervalHours, cron, req, portReq, budget, releasedAt>>
    /\ UNCHANGED <<ops, sweepLog, exhaustedAt>>

\* The port loop (708-719) and the eligible-domain query (723-748), which
\* reads the snapshot and the transaction's own writes.
TxSelect(c) ==
    /\ txn[c].pc = "select"
    /\ LET a == Call(c)
           t == txn[c]
       IN  \E pick \in PickPort(t.port) :
              IF pick.kind = "panic"
              THEN /\ Returned(c, TxRes(t, ErrNil, "panic"))
                   /\ txn' = [txn EXCEPT ![c] = TxIdle]
              ELSE IF pick.kind = "exhausted"
              THEN /\ Returned(c, TxRes([t EXCEPT !.nextPort = pick.port], ErrPort,
                                        "rollback"))
                   /\ txn' = [txn EXCEPT ![c] = TxIdle]
              ELSE LET E == Eligible(t.D, a.table, a.id, a.now, t.host)
                   IN  IF E = {}
                       THEN /\ Returned(c, TxRes([t EXCEPT !.nextPort = pick.port],
                                                 ErrNoDomain, "rollback"))
                            /\ txn' = [txn EXCEPT ![c] = TxIdle]
                       ELSE /\ \E s \in OrderByLastUsed(t.D, E) :
                                  txn' = [txn EXCEPT ![c] =
                                            [@ EXCEPT !.pc = "write",
                                                      !.nextPort = pick.port,
                                                      !.avail = Rows(t.D, s),
                                                      !.nextDomain = t.D[s[1]]]]
                            /\ UNCHANGED <<cron, req, sweepLog>>
    /\ UNCHANGED <<servers, domains, nextId, clock, minPort, maxPort,
                   updateIntervalHours, portReq, budget, releasedAt>>
    /\ UNCHANGED <<ops, exhaustedAt>>

\* The three writes (758, 766, 779-780): the server row, the claim of
\* nextDomain by its id, which changes no row when the row is gone, and for the
\* sweep the order after the MAX(order) of the view.
TxWrite(c) ==
    /\ txn[c].pc = "write"
    /\ LET a == Call(c)
           t == txn[c]
           k == <<a.table, a.id>>
           eid == t.nextDomain.id
           rows == {eid} \cap DOMAIN domains
           S1 == WriteRecord([t.S EXCEPT ![k] = servers[k]], a.table, a.id, t.nextPort,
                             t.nextDomain.domain, a.now)
           D2 == Updated(t.D, [e \in rows |->
                                   [domains[e] EXCEPT !.in_use = 1,
                                                      !.last_used_time = a.now]])
           maxDomainOrder == MaxOrder(D2, a.table, a.id)
           D3 == IF a.useOrder
                 THEN Updated(D2, [e \in rows |->
                                        [D2[e] EXCEPT !.order = maxDomainOrder + 1]])
                 ELSE D2
       IN  /\ k \notin LockedS(Callers \ {c})
           /\ rows \cap LockedD(Callers \ {c}) = {}
           /\ txn' = [txn EXCEPT ![c] =
                        [@ EXCEPT !.pc = "commit", !.S = S1, !.D = D3,
                                  !.lockS = @ \cup {k}, !.lockD = @ \cup rows]]
    /\ UNCHANGED <<servers, domains, nextId, clock, minPort, maxPort,
                   updateIntervalHours, cron, req, portReq, budget, releasedAt>>
    /\ UNCHANGED <<ops, sweepLog, exhaustedAt>>

\* tx.Commit() (789): the rows the transaction wrote become the committed rows
\* and its locks end; updateServer returns nil.
TxCommit(c) ==
    /\ txn[c].pc = "commit"
    /\ LET a == Call(c)
           t == txn[c]
           D1 == [e \in DOMAIN domains |-> IF e \in t.lockD THEN t.D[e] ELSE domains[e]]
       IN  /\ servers' = [k \in DOMAIN servers |->
                            IF k \in t.lockS THEN t.S[k] ELSE servers[k]]
           /\ domains' = D1
           /\ releasedAt' = NoteReleases(domains, D1, a.now)
           /\ Returned(c, TxRes(t, ErrNil, "commit"))
           /\ txn' = [txn EXCEPT ![c] = TxIdle]
    /\ UNCHANGED <<nextId, clock, minPort, maxPort, updateIntervalHours, portReq, budget>>
    /\ UNCHANGED <<ops, exhaustedAt>>

\* The status writes of the callers (645, 654; 462, 468) wait for the lock on
\* the server row.
SweepStatus ==
    /\ cron.pc = "status"
    /\ <<Tables[cron.ti], Head(cron.queue)>> \notin LockedS(Callers)
    /\ CronStatus

RequestStatus ==
    /\ req.pc = "status"
    /\ <<req.table, req.id>> \notin LockedS(Callers)
    /\ UpdateNowStatus

\* POST /add-domain, statement by statement: the validation and First (310-
\* 320) ...
AddCheck(h) ==
    /\ ops[h].pc = "done"
    /\ budget.requests > 0
    /\ \E target \in RequestTargets, domain \in AddableDomains :
          LET table == target[1]
              id == target[2]
          IN  /\ id > 0 /\ table \in TableSet
              /\ ops' = [ops EXCEPT ![h] =
                           IF domain = "" \/ HostRows(domains, table, id, domain) # {}
                           THEN OpDone("add", table, id, domain, 0,
                                       AddResult(domains, table, id, domain, "none"))
                           ELSE [OpDone("add", table, id, domain, 0, "")
                                    EXCEPT !.pc = "max"]]
    /\ budget' = [budget EXCEPT !.requests = @ - 1]
    /\ UNCHANGED <<servers, domains, nextId, clock, minPort, maxPort,
                   updateIntervalHours, cron, req, portReq, releasedAt>>
    /\ UNCHANGED <<txn, sweepLog, exhaustedAt>>

\* ... the MAX(order) query (321-322) ...
AddMax(h) ==
    /\ ops[h].pc = "max"
    /\ ops' = [ops EXCEPT ![h] =
                 [@ EXCEPT !.pc = "create",
                           !.maxOrder = AddMaxOrder(domains, ops[h].table, ops[h].id,
                                                    "none")]]
    /\ UNCHANGED <<servers, domains, nextId, clock, minPort, maxPort,
                   updateIntervalHours, cron, req, portReq, budget, releasedAt>>
    /\ UNCHANGED <<txn, sweepLog, exhaustedAt>>

\* ... and Create (331-335), which the unique index rejects when a row has the
\* domain by now.
AddCreate(h) ==
    /\ ops[h].pc = "create"
    /\ LET o == ops[h]
       IN  IF UniqueDomain(domains, o.domain)
           THEN /\ domains' = domains @@
                      (nextId :> NewDomain(nextId, o.table, o.id, o.domain, o.maxOrder))
                /\ nextId' = nextId + 1
                /\ ops' = [ops EXCEPT ![h] = [@ EXCEPT !.pc = "done", !.result = AddOk]]
           ELSE /\ UNCHANGED <<domains, nextId>>
                /\ ops' = [ops EXCEPT ![h] = [@ EXCEPT !.pc = "done", !.result = AddFailed]]
    /\ UNCHANGED <<servers, clock, minPort, maxPort, updateIntervalHours, cron, req,
                   portReq, budget, releasedAt>>
    /\ UNCHANGED <<txn, sweepLog, exhaustedAt>>

\* POST /delete-domain, statement by statement: First and the test of in_use
\* (377-387) ...
DeleteFind(h) ==
    /\ ops[h].pc = "done"
    /\ budget.requests > 0
    /\ \E target \in RequestTargets, domainID \in 1..(nextId - 1) :
          LET table == target[1]
              id == target[2]
              result == DeleteResult(servers, domains, table, id, domainID, "none")
          IN  /\ id > 0 /\ domainID > 0 /\ table \in TableSet
              /\ ops' = [ops EXCEPT ![h] =
                           IF result \in {DeleteNotFound, DeleteInUse}
                           THEN OpDone("delete", table, id, "", domainID, result)
                           ELSE [OpDone("delete", table, id, "", domainID, "")
                                    EXCEPT !.pc = "host", !.row = domains[domainID]]]
    /\ budget' = [budget EXCEPT !.requests = @ - 1]
    /\ UNCHANGED <<servers, domains, nextId, clock, minPort, maxPort,
                   updateIntervalHours, cron, req, portReq, releasedAt>>
    /\ UNCHANGED <<txn, sweepLog, exhaustedAt>>

\* ... the read of the server's host and its test (388-395) ...
DeleteHost(h) ==
    /\ ops[h].pc = "host"
    /\ LET o == ops[h]
           k == <<o.table, o.id>>
       IN  ops' = [ops EXCEPT ![h] =
                     IF IsHost(servers, o.row, o.table, o.id)
                     THEN [@ EXCEPT !.pc = "done", !.result = DeleteCurrentHost,
                                    !.host = servers[k].host]
                     ELSE [@ EXCEPT !.pc = "delete",
                                    !.host = IF k \in DOMAIN servers
                                             THEN servers[k].host ELSE ""]]
    /\ UNCHANGED <<servers, domains, nextId, clock, minPort, maxPort,
                   updateIntervalHours, cron, req, portReq, budget, releasedAt>>
    /\ UNCHANGED <<txn, sweepLog, exhaustedAt>>

\* ... and Delete (396-400), which waits while a transaction holds the row.
DeleteExec(h) ==
    /\ ops[h].pc = "delete"
    /\ LET o == ops[h]
       IN  /\ o.domainID \notin LockedD(Callers)
           /\ domains' = DeleteRow(domains, o.table, o.id, o.domainID)
           /\ ops' = [ops EXCEPT ![h] = [@ EXCEPT !.pc = "done", !.result = DeleteOk]]
    /\ UNCHANGED <<servers, nextId, clock, minPort, maxPort, updateIntervalHours, cron,
                   req, portReq, budget, releasedAt>>
    /\ UNCHANGED <<txn, sweepLog, exhaustedAt>>

\* The steps of the transaction of the caller c.
TxStep(c) ==
    TxBegin(c) \/ TxRelease(c) \/ TxSelect(c) \/ TxWrite(c) \/ TxCommit(c)

\* A sweep and /update-now requests overlap.
RotateInit ==
    Start([requests |-> MaxConcRequests, faults |-> 0, sweeps |-> MaxConcSweeps])

RotateNext ==
    \/ CronStart
    \/ UpdateNowBegin
    \/ \E c \in Callers : TxStep(c)
    \/ SweepStatus
    \/ RequestStatus

RotateSpec == RotateInit /\ [][RotateNext]_vars

\* Every operation that can take a step takes one.
RotateFair == RotateSpec /\ WF_vars(RotateNext)

\* time.Now() moves on while a sweep or a request runs: the sweep keeps the
\* now it read when it began (628), a request reads its own (459).
MaxElapses == 2

Elapse ==
    /\ ~Idle
    /\ clock < StartTime + MaxElapses * TickSecs
    /\ clock' = clock + TickSecs
    /\ UNCHANGED <<servers, domains, nextId, minPort, maxPort, updateIntervalHours,
                   cron, req, portReq, budget, releasedAt>>
    /\ UNCHANGED <<ops, txn, sweepLog, exhaustedAt>>

\* A sweep and /update-now requests overlap while time passes.
OverlapNext == RotateNext \/ Elapse
OverlapSpec == RotateInit /\ [][OverlapNext]_vars

\* /add-domain, /delete-domain and /update-now requests overlap.
MaxHandlerRequests == 2

HandlerInit == Start([requests |-> MaxHandlerRequests, faults |-> 0, sweeps |-> 0])

HandlerNext ==
    \/ UpdateNowBegin
    \/ TxStep("req")
    \/ RequestStatus
    \/ \E h \in Handlers :
          \/ AddCheck(h) \/ AddMax(h) \/ AddCreate(h)
          \/ DeleteFind(h) \/ DeleteHost(h) \/ DeleteExec(h)

HandlerSpec == HandlerInit /\ [][HandlerNext]_vars

----------------------------------------------------------------------------
(* The scheduler alone: the cron job fires every five minutes and no operator
   request arrives; no statement returns an error. *)

SweepInit == Start([requests |-> 0, faults |-> 0, sweeps |-> MaxSweepsInARow])

\* The time to the next run of the cron job passes.
FiveMinutes ==
    /\ Idle
    /\ clock < StartTime + MaxPeriods * SweepPeriod
    /\ clock' = clock + SweepPeriod
    /\ UNCHANGED <<servers, domains, nextId, minPort, maxPort, updateIntervalHours,
                   cron, req, portReq, budget, releasedAt>>
    /\ UNCHANGED <<ops, txn, sweepLog, exhaustedAt>>

SweepNext ==
    \/ FiveMinutes
    \/ CronStart
    \/ CronAttempt
    \/ CronStatus

SweepSpec == SweepInit /\ [][SweepNext]_vars

\* The cron job as scheduled: run i of checkAndUpdateServers begins at the
\* start time + i periods; the configuration sets a positive interval, so that
\* a rotated server is due again after interval * 12 periods.
MaxPeriodicSweeps == 14

PeriodicInit ==
    /\ Start([requests |-> 0, faults |-> MaxFaults, sweeps |-> MaxPeriodicSweeps])
    /\ updateIntervalHours > 0

SweepsBegun == MaxPeriodicSweeps - budget.sweeps
PeriodsPassed == (clock - StartTime) \div SweepPeriod

\* The schedule fires: the run of this period begins.
CronFires ==
    /\ SweepsBegun = PeriodsPassed
    /\ CronStart

\* The run of this period has ended and the time to the next one passes.
NextPeriod ==
    /\ Idle
    /\ SweepsBegun = PeriodsPassed + 1
    /\ budget.sweeps > 0
    /\ clock' = clock + SweepPeriod
    /\ UNCHANGED <<servers, domains, nextId, minPort, maxPort, updateIntervalHours,
                   cron, req, portReq, budget, releasedAt>>
    /\ UNCHANGED <<ops, txn, sweepLog, exhaustedAt>>

PeriodicNext ==
    \/ CronFires
    \/ NextPeriod
    \/ CronAttempt
    \/ CronStatus

PeriodicSpec == PeriodicInit /\ [][PeriodicNext]_vars

\* The scheduler and the clock keep going.
PeriodicFair == PeriodicSpec /\ WF_vars(PeriodicNext)

----------------------------------------------------------------------------
(* What the properties below speak of: the steps that are one call of
   updateServer, and the calls whose caller has not yet written the status. *)

CronCall == cron.pc = "attempt" /\ cron'.attempt = cron.attempt + 1
ReqCall == req.pc = "idle" /\ req'.pc = "status"

\* P(table, id, now, res) of every call made in this step.
EveryCall(P(_, _, _, _)) ==
    /\ CronCall => P(Tables[cron.ti], Head(cron.queue), cron.now, cron'.res)
    /\ ReqCall => P(req'.table, req'.id, req'.now, req'.res)

\* The calls that have returned to a caller still at work.
Pending ==
    (IF cron.pc \in {"attempt", "status"} /\ cron.attempt > 0
     THEN {[table |-> Tables[cron.ti], id |-> Head(cron.queue), now |-> cron.now,
            res |-> cron.res]}
     ELSE {})
    \cup (IF req.pc = "status"
          THEN {[table |-> req.table, id |-> req.id, now |-> req.now, res |-> req.res]}
          ELSE {})

OwnedBy(e, table, id) == domains[e].server_table = table /\ domains[e].server_id = id

\* The row e, before the call, is one the claim calls eligible: of this owner,
\* not in use once the host's row is released, never used or used 10800 s ago
\* or earlier, and not the row of the non-empty current host.
EligibleBefore(e, table, id, now, host) ==
    LET isHost == host # "" /\ domains[e].domain = host
        inUseAfterRelease == IF isHost THEN 0 ELSE domains[e].in_use
    IN  /\ OwnedBy(e, table, id)
        /\ inUseAfterRelease = 0
        /\ (domains[e].last_used_time = 0 \/ now - domains[e].last_used_time >= 10800)
        /\ ~isHost

InList(e, res) == \E i \in DOMAIN res.avail : res.avail[i].id = e

\* The call got as far as the eligible-domain query and the query returned.
QueryRan(res) ==
    res.how # "panic" /\ res.err \notin {ErrRead, ErrRelease, ErrPort, ErrQuery}

----------------------------------------------------------------------------
(* C1. Atomicity on failure: a call of updateServer that returns an error
   leaves host, port, server_port and next_update_time of every server and
   in_use, last_used_time and order of every pool row as they were before the
   call; the release of the old host's row is not kept. *)

RecordsKept ==
    \A k \in DOMAIN servers :
        /\ servers'[k].host = servers[k].host
        /\ servers'[k].port = servers[k].port
        /\ servers'[k].server_port = servers[k].server_port
        /\ servers'[k].next_update_time = servers[k].next_update_time

EntriesKept ==
    /\ DOMAIN domains' = DOMAIN domains
    /\ \A e \in DOMAIN domains :
          /\ domains'[e].in_use = domains[e].in_use
          /\ domains'[e].last_used_time = domains[e].last_used_time
          /\ domains'[e].order = domains[e].order

FailureKeepsStores(table, id, now, res) ==
    res.err # ErrNil => RecordsKept /\ EntriesKept

C1_AtomicOnFailure == [][EveryCall(FailureKeepsStores)]_vars

\* A call failed at its commit, after it had released the host's row and
\* claimed another: the host's row is in use and the other is not.
C1_Witness ==
    \E c \in Pending :
        /\ c.res.err = ErrCommit
        /\ c.res.host # ""
        /\ \E e \in DOMAIN domains :
              OwnedBy(e, c.table, c.id) /\ domains[e].domain = c.res.host
              /\ domains[e].in_use = 1
        /\ c.res.nextDomain.id \in DOMAIN domains
        /\ domains[c.res.nextDomain.id].in_use = 0

----------------------------------------------------------------------------
(* C2. Store agreement: for every server at most one pool row of that owner
   has in_use = 1, and if one has, its domain is the server's host. *)

InUseRows(k) ==
    {e \in DOMAIN domains : OwnedBy(e, k[1], k[2]) /\ domains[e].in_use = 1}

C2_StoreAgreement ==
    \A k \in DOMAIN servers :
        /\ Cardinality(InUseRows(k)) <= 1
        /\ \A e \in InUseRows(k) : domains[e].domain = servers[k].host

----------------------------------------------------------------------------
(* C3. Eligibility: a pool row is in the list of the eligible-domain query of
   a call for (table, id) at now exactly if it is a row of that owner, not in
   use after the release step, never used or last used at least 10800 s before
   now, and not the row of the server's non-empty host. *)

ListIsTheEligible(table, id, now, res) ==
    QueryRan(res) =>
        \A e \in DOMAIN domains :
            InList(e, res) <=> EligibleBefore(e, table, id, now, servers[<<table, id>>].host)

C3_Eligibility == [][EveryCall(ListIsTheEligible)]_vars

\* A call listed some row while a row of the same owner was left out for its
\* cooldown alone and a never-used free row of another owner was left out.
C3_Witness ==
    \E c \in Pending :
        /\ c.res.avail # <<>>
        /\ \E e \in DOMAIN domains :
              /\ OwnedBy(e, c.table, c.id) /\ ~InList(e, c.res)
              /\ domains[e].in_use = 0 /\ domains[e].domain # c.res.host
              /\ domains[e].last_used_time > c.now - 10800
        /\ \E e \in DOMAIN domains :
              /\ ~OwnedBy(e, c.table, c.id)
              /\ domains[e].in_use = 0 /\ domains[e].last_used_time = 0

----------------------------------------------------------------------------
(* C4. Cooldown from the last use: last_used_time of a row changes only when
   the row is claimed; a claim sets it to a later time that is at least
   10800 s after the time of the claim before (if there was one); a release
   (in_use from 1 to 0) leaves last_used_time as it is. *)

C4_CooldownFromLastUse ==
    [][\A e \in DOMAIN domains \cap DOMAIN domains' :
          LET a == domains[e]
              b == domains'[e]
          IN  /\ (b.last_used_time # a.last_used_time \/ (a.in_use = 0 /\ b.in_use = 1))
                    => /\ b.in_use = 1
                       /\ b.last_used_time > a.last_used_time
                       /\ a.last_used_time = 0
                             \/ b.last_used_time - a.last_used_time >= 10800
              /\ (a.in_use = 1 /\ b.in_use = 0)
                    => b.last_used_time = a.last_used_time]_vars

\* A row that was used, then released by a rotation, is claimed again.
C4_Witness ==
    \E c \in Pending :
        /\ c.res.how = "commit"
        /\ c.res.nextDomain.last_used_time # 0
        /\ c.res.nextDomain.id \in DOMAIN releasedAt
        /\ domains[c.res.nextDomain.id].last_used_time = c.now

----------------------------------------------------------------------------
(* C5, as claimed. Rest period after release: a row released by a rotation at
   time t is not in use again before t + 10800. *)

C5_RestAfterRelease ==
    \A e \in DOMAIN domains \cap DOMAIN releasedAt :
        domains[e].in_use = 1 => domains[e].last_used_time >= releasedAt[e] + 10800

(* C5, amended. A row released by a rotation is not claimed again before
   10800 s after its last_used_time, the time of its last claim, which is at
   or before the time of the release. *)

C5_RestFromLastUse ==
    [][\A e \in DOMAIN domains \cap DOMAIN domains' \cap DOMAIN releasedAt :
          (domains[e].in_use = 0 /\ domains'[e].in_use = 1)
              => /\ domains'[e].last_used_time >= domains[e].last_used_time + 10800
                 /\ domains[e].last_used_time <= releasedAt[e]]_vars

\* A released row is in use again less than 10800 s after its release.
C5_Witness ==
    \E e \in DOMAIN domains \cap DOMAIN releasedAt :
        /\ domains[e].in_use = 1
        /\ domains[e].last_used_time >= releasedAt[e]
        /\ domains[e].last_used_time < releasedAt[e] + 10800

----------------------------------------------------------------------------
(* C6. Least recently used: the row a committed call claims is eligible and
   has the least last_used_time of all rows eligible in the call, so a
   never-used row is taken whenever one is eligible. *)

ClaimsLeastRecentlyUsed(table, id, now, res) ==
    res.how = "commit" =>
        LET n == res.nextDomain.id
            host == servers[<<table, id>>].host
        IN  /\ n \in DOMAIN domains
            /\ EligibleBefore(n, table, id, now, host)
            /\ \A e \in DOMAIN domains :
                  EligibleBefore(e, table, id, now, host)
                      => domains[n].last_used_time <= domains[e].last_used_time
            /\ domains'[n].in_use = 1
            /\ servers'[<<table, id>>].host = domains[n].domain

C6_LeastRecentlyUsed == [][EveryCall(ClaimsLeastRecentlyUsed)]_vars

\* A committed call took a never-used row while a used one was eligible too.
C6_Witness ==
    \E c \in Pending :
        /\ c.res.how = "commit"
        /\ c.res.nextDomain.last_used_time = 0
        /\ \E i \in DOMAIN c.res.avail : c.res.avail[i].last_used_time > 0

----------------------------------------------------------------------------
(* C7. Deterministic tie-break: of the eligible rows with the least
   last_used_time, a committed call claims the one with the least id. *)

C7_TieBreakById ==
    \A c \in Pending :
        c.res.how = "commit" =>
            \A i \in DOMAIN c.res.avail :
                c.res.avail[i].last_used_time = c.res.nextDomain.last_used_time
                    => c.res.nextDomain.id <= c.res.avail[i].id

----------------------------------------------------------------------------
(* C8. Exclusion: the non-empty host of the server is not in the list of its
   own call, and after every call that returns nil the server's host differs
   from its host before the call. *)

HostExcludedAndChanged(table, id, now, res) ==
    /\ QueryRan(res) =>
          \A i \in DOMAIN res.avail :
              servers[<<table, id>>].host # "" => res.avail[i].domain # servers[<<table, id>>].host
    /\ res.err = ErrNil => servers'[<<table, id>>].host # servers[<<table, id>>].host

C8_Exclusion == [][EveryCall(HostExcludedAndChanged)]_vars

----------------------------------------------------------------------------
(* C9. Port distinctness: a call that reaches the port loop returns the
   no-distinct-port error exactly if minPort = maxPort = the server's
   server_port; a call that commits writes a server_port of
   minPort..maxPort other than the one before. *)

PortLoopRan(res) == res.how # "panic" /\ res.err \notin {ErrRead, ErrRelease}

PortIsDistinct(table, id, now, res) ==
    PortLoopRan(res) =>
        /\ res.err = ErrPort
              <=> (minPort = maxPort /\ servers[<<table, id>>].server_port = minPort)
        /\ res.how = "commit"
              => /\ servers'[<<table, id>>].server_port \in minPort..maxPort
                 /\ servers'[<<table, id>>].server_port # servers[<<table, id>>].server_port

C9_PortDistinct == [][EveryCall(PortIsDistinct)]_vars

----------------------------------------------------------------------------
(* C10. Success postcondition: after a committed call at now that selected
   the row n, the server has host = n.domain, port = the decimal string of the
   new server_port, next_update_time = now + updateIntervalHours*3600; n has
   in_use = 1 and last_used_time = now; the row of the host before the call,
   if any, has in_use = 0 and its last_used_time unchanged. *)

SuccessPostcondition(table, id, now, res) ==
    res.how = "commit" =>
        LET k == <<table, id>>
            n == res.nextDomain
        IN  /\ servers'[k].host = n.domain
            /\ servers'[k].server_port = res.nextPort
            /\ Atoi(servers'[k].port) = servers'[k].server_port
            /\ Len(servers'[k].port) = IF servers'[k].server_port < 10 THEN 1 ELSE 2
            /\ servers'[k].next_update_time = now + updateIntervalHours * 3600
            /\ domains'[n.id].in_use = 1
            /\ domains'[n.id].last_used_time = now
            /\ \A e \in DOMAIN domains :
                  (OwnedBy(e, table, id) /\ servers[k].host # ""
                   /\ domains[e].domain = servers[k].host)
                      => /\ domains'[e].in_use = 0
                         /\ domains'[e].last_used_time = domains[e].last_used_time

C10_SuccessPostcondition == [][EveryCall(SuccessPostcondition)]_vars

----------------------------------------------------------------------------
(* C11. Pool exhaustion: a call for an existing server that found a port and
   whose eligible-domain query returned, while no row of the owner was
   eligible (each other row in use or inside its cooldown), returns the
   no-available-domain error, and only such a call does; the server keeps
   host, port, server_port and next_update_time, every pool row is as before,
   and the row of the old host still has in_use = 1. *)

NoneEligible(table, id, now) ==
    \A e \in DOMAIN domains :
        ~EligibleBefore(e, table, id, now, servers[<<table, id>>].host)

ExhaustedPoolFails(table, id, now, res) ==
    /\ (QueryRan(res) /\ NoneEligible(table, id, now))
          => /\ res.err = ErrNoDomain
             /\ RecordsKept
             /\ EntriesKept
             /\ \A e \in HostRows(domains, table, id, servers[<<table, id>>].host) :
                   domains[e].in_use = 1 => domains'[e].in_use = 1
    /\ res.err = ErrNoDomain
          => /\ NoneEligible(table, id, now)
             /\ res.nextPort \in minPort..maxPort
             /\ res.nextPort # servers[<<table, id>>].server_port

C11_PoolExhaustion == [][EveryCall(ExhaustedPoolFails)]_vars

\* A call returned the no-available-domain error for a server whose host's row
\* is in use, while another row of the owner was free but inside its cooldown.
C11_Witness ==
    \E c \in Pending :
        /\ c.res.err = ErrNoDomain
        /\ c.res.host # ""
        /\ c.res.nextPort # c.res.port
        /\ \E e \in DOMAIN domains :
              /\ OwnedBy(e, c.table, c.id) /\ domains[e].domain = c.res.host
              /\ domains[e].in_use = 1
        /\ \E e \in DOMAIN domains :
              /\ OwnedBy(e, c.table, c.id) /\ domains[e].domain # c.res.host
              /\ domains[e].in_use = 0
              /\ domains[e].last_used_time > c.now - 10800

----------------------------------------------------------------------------
(* C12. Bounded retry: in one sweep every server the sweep found due gets at
   least one and at most three calls of updateServer; no call follows one that
   returned nil, a failed call is followed by another until there were three;
   at most one call per server and sweep commits; and after a call that
   returned nil the sweep writes the success value to last_update_status
   (when that write returns an error, it is logged and the row is as before). *)

\* The server the sweep is at.
CronServer == <<Tables[cron.ti], Head(cron.queue)>>

AttemptsBounded ==
    /\ cron.pc = "attempt" => cron.attempt \in 0..2
    /\ cron.pc = "status" => cron.attempt \in 1..3
    /\ sweepLog # <<>> => \A k \in DOMAIN sweepLog.committed : sweepLog.committed[k] <= 1

RetryStopsAtSuccess ==
    CronCall =>
        /\ cron.attempt > 0 => cron.res.err # ErrNil
        /\ cron'.res.err = ErrNil => cron'.pc = "status"
        /\ (cron'.res.err # ErrNil /\ cron'.attempt < 3) => cron'.pc = "attempt"
        /\ cron'.res.how = "commit" => CronServer \notin DOMAIN sweepLog.committed
                                       \/ sweepLog.committed[CronServer] = 0

\* The step in which the sweep writes the status of the server it is at.
CronWrite == cron.pc = "status" /\ cron' # cron

SuccessIsWritten ==
    (CronWrite /\ cron.res.err = ErrNil) =>
        \/ servers' = [servers EXCEPT ![CronServer].last_update_status = StatusSuccess]
        \/ servers' = servers /\ budget'.faults = budget.faults - 1

C12_BoundedRetry ==
    []AttemptsBounded /\ [][RetryStopsAtSuccess /\ SuccessIsWritten]_vars

\* A sweep is at its second server; the first call for it failed and the
\* second committed; the server before it committed too and has the success
\* status.
C12_Witness ==
    /\ cron.pc = "status"
    /\ cron.attempt = 2
    /\ cron.res.how = "commit"
    /\ \E k \in DOMAIN sweepLog.committed :
          /\ k # CronServer
          /\ sweepLog.committed[k] = 1
          /\ servers[k].last_update_status = StatusSuccess

----------------------------------------------------------------------------
(* C13. Retry exhaustion: when the three calls of a sweep at now for a server
   all returned an error, the sweep writes last_update_status = the failure
   prefix followed by the error of the third call and next_update_time =
   now + updateIntervalHours*3600 (when that write returns an error, it is
   logged and the row is as before); the server's host, port and server_port
   and the pool rows of the server are as they were when the sweep began, and
   the write changes no pool row. *)

OwnerRows(D, k) == {e \in DOMAIN D : D[e].server_table = k[1] /\ D[e].server_id = k[2]}

AsAtSweepStart(k) ==
    /\ servers[k].host = sweepLog.servers[k].host
    /\ servers[k].port = sweepLog.servers[k].port
    /\ servers[k].server_port = sweepLog.servers[k].server_port
    /\ OwnerRows(domains, k) = OwnerRows(sweepLog.domains, k)
    /\ \A e \in OwnerRows(domains, k) : domains[e] = sweepLog.domains[e]

ExhaustionIsWritten ==
    (CronWrite /\ cron.res.err # ErrNil) =>
        /\ cron.attempt = 3
        /\ sweepLog.committed[CronServer] = 0
        /\ AsAtSweepStart(CronServer)
        /\ domains' = domains
        /\ \/ servers' = [servers EXCEPT
                  ![CronServer].last_update_status = <<"update failed: ", cron.res.err>>,
                  ![CronServer].next_update_time = cron.now + updateIntervalHours * 3600]
           \/ servers' = servers /\ budget'.faults = budget.faults - 1

C13_RetryExhaustion == [][ExhaustionIsWritten]_vars

\* A sweep has written the failure of a server after three calls that found
\* no eligible row: the server has the failure status and a later
\* next_update_time.
C13_Witness ==
    \E k \in DOMAIN exhaustedAt :
        /\ servers[k].last_update_status = <<"update failed: ", ErrNoDomain>>
        /\ updateIntervalHours > 0
        /\ servers[k].next_update_time = exhaustedAt[k] + updateIntervalHours * 3600
        /\ servers[k].host # ""

----------------------------------------------------------------------------
(* C14. No tight failure loop: a server whose three calls all failed in a
   sweep at now is not called again by the sweep five minutes later; the
   first call of a later sweep for it is at a time that is more than one
   sweep period after now and at least now + updateIntervalHours*3600. *)

NotCalledBeforeForcedTime ==
    (/\ CronCall /\ cron.attempt = 0
     /\ CronServer \in DOMAIN exhaustedAt
     /\ cron.now > exhaustedAt[CronServer]) =>
        /\ cron.now > exhaustedAt[CronServer] + SweepPeriod
        /\ cron.now >= exhaustedAt[CronServer] + updateIntervalHours * 3600

C14_NoTightLoop == [][NotCalledBeforeForcedTime]_vars

----------------------------------------------------------------------------
(* C15. On-demand trigger: one /update-now request makes one call of
   updateServer, with useOrder = false, and no second one; the call changes
   the order of no pool row, and when it returns an error it leaves host, port,
   server_port and next_update_time of every server as they were; the handler
   then writes last_update_status by what the call returned (success value, or
   failure prefix and error), changing nothing else (when that write returns
   an error, it is logged and the row is as before), and has ended. *)

OneCallWithoutOrder ==
    ReqCall =>
        /\ budget'.requests = budget.requests - 1
        /\ DOMAIN domains' = DOMAIN domains
        /\ \A e \in DOMAIN domains : domains'[e].order = domains[e].order
        /\ req'.res.err # ErrNil => RecordsKept
        /\ cron' = cron

\* The step in which the handler writes the status and answers.
ReqWrite == req.pc = "status" /\ req' # req

OutcomeIsWritten ==
    ReqWrite =>
        LET k == <<req.table, req.id>>
            status == IF req.res.err = ErrNil THEN <<"update succeeded">>
                      ELSE <<"update failed: ", req.res.err>>
        IN  /\ req'.pc = "idle"
            /\ domains' = domains
            /\ budget'.requests = budget.requests
            /\ \/ /\ k \in DOMAIN servers
                  /\ servers' = [servers EXCEPT ![k].last_update_status = status]
               \/ k \notin DOMAIN servers /\ servers' = servers
               \/ servers' = servers /\ budget'.faults = budget.faults - 1

C15_OnDemand == [][OneCallWithoutOrder /\ OutcomeIsWritten]_vars

\* The call of a request committed and claimed a row that is not the last in
\* order; the row has the order it had.
C15_Witness ==
    /\ req.pc = "status"
    /\ req.res.how = "commit"
    /\ req.res.nextDomain.id \in DOMAIN domains
    /\ domains[req.res.nextDomain.id].in_use = 1
    /\ domains[req.res.nextDomain.id].order = req.res.nextDomain.order
    /\ req.res.nextDomain.order < MaxOrder(domains, req.table, req.id)

----------------------------------------------------------------------------
(* The requests /add-domain and /delete-domain, where requests do not
   overlap: the step in which Handlers[1] runs one. *)

AddStep == ops' # ops /\ ops'[1].op = "add"
DeleteStep == ops' # ops /\ ops'[1].op = "delete"

\* The pool rows of an owner.
PoolOf(D, table, id) ==
    {e \in DOMAIN D : D[e].server_table = table /\ D[e].server_id = id}

\* Operators add and delete domains and ask for rotations, one request after
\* the other, with no sweep in between.
MaxPoolRequests == 2

PoolInit == Start([requests |-> MaxPoolRequests, faults |-> MaxFaults, sweeps |-> 0])
PoolNext == AddDomain \/ DeleteDomain \/ UpdateNowCall \/ UpdateNowStatus
PoolSpec == PoolInit /\ [][PoolNext]_vars

----------------------------------------------------------------------------
(* C17. Successful add: a request to add a non-empty domain of which the
   owner has no row, whatever rows other owners have, in which no statement
   returns an error, answers with success and creates exactly one row, of that
   owner and domain, with in_use = 0, last_used_time = 0 and order = 1 + the
   maximum order of the owner's rows. *)

\* Exactly one row was created, and it is as the claim says.
OneRowCreated(o) ==
    /\ DOMAIN domains \subseteq DOMAIN domains'
    /\ \A e \in DOMAIN domains : domains'[e] = domains[e]
    /\ \E n \in DOMAIN domains' \ DOMAIN domains :
          /\ DOMAIN domains' = DOMAIN domains \cup {n}
          /\ domains'[n].server_table = o.table
          /\ domains'[n].server_id = o.id
          /\ domains'[n].domain = o.domain
          /\ domains'[n].in_use = 0
          /\ domains'[n].last_used_time = 0
          /\ domains'[n].order = 1 + MaxOrder(domains, o.table, o.id)

AddSucceeds ==
    AddStep /\ budget'.faults = budget.faults =>
        LET o == ops'[1]
        IN  o.domain # "" /\ HostRows(domains, o.table, o.id, o.domain) = {} =>
                o.result = AddOk /\ OneRowCreated(o)

C17_SuccessfulAdd == [][AddSucceeds]_vars

----------------------------------------------------------------------------
(* C18. Guarded remove: a request to delete a row of the owner that has
   in_use = 1 answers InUse, one to delete a row with in_use = 0 whose domain
   is the owner's host answers IsCurrentHost, and in both cases the pool is as
   before; a request to delete any other row of the owner deletes exactly that
   row.  A request in which a statement returned an error may answer otherwise,
   and then leaves the pool as before. *)

GuardedRemove ==
    DeleteStep =>
        LET o == ops'[1]
            aborted == budget'.faults = budget.faults - 1 /\ domains' = domains
        IN  FoundRow(domains, o.table, o.id, o.domainID) =>
              IF domains[o.domainID].in_use = 1
              THEN (o.result = DeleteInUse /\ domains' = domains) \/ aborted
              ELSE IF IsHost(servers, domains[o.domainID], o.table, o.id)
              THEN (o.result = DeleteCurrentHost /\ domains' = domains) \/ aborted
              ELSE \/ /\ o.result = DeleteOk
                      /\ DOMAIN domains' = DOMAIN domains \ {o.domainID}
                      /\ \A e \in DOMAIN domains' : domains'[e] = domains[e]
                   \/ aborted

C18_GuardedRemove == [][GuardedRemove]_vars

\* The same with no statement returning an error in the request.
GuardedRemoveNoFault == [][budget'.faults = budget.faults => GuardedRemove]_vars

\* A request answered that the row is the host's.
AnsweredCurrentHost == ops[1].op = "delete" /\ ops[1].result = DeleteCurrentHost

----------------------------------------------------------------------------
(* C16. Duplicate add: a request to add a domain of which the owner has a
   row answers DuplicateDomain and leaves the pool as it is; and in every
   state, also while add requests overlap, no two rows have the same owner and
   domain. *)

UniquePerOwner ==
    \A e1, e2 \in DOMAIN domains :
        /\ domains[e1].server_table = domains[e2].server_table
        /\ domains[e1].server_id = domains[e2].server_id
        /\ domains[e1].domain = domains[e2].domain
        => e1 = e2

\* The step in which handler h takes an add request and runs its check.
AddArrives(h) == ops[h].pc = "done" /\ ops'[h] # ops[h] /\ ops'[h].op = "add"

DuplicateRefused ==
    \A h \in Handlers :
        AddArrives(h) =>
            LET o == ops'[h]
            IN  o.domain # "" /\ HostRows(domains, o.table, o.id, o.domain) # {} =>
                    /\ o.pc = "done"
                    /\ o.result = AddDuplicate
                    /\ domains' = domains

\* An add changes the pool by one new row or not at all.
AddOnlyAdds ==
    \A h \in Handlers :
        ops[h].op = "add" /\ ops[h].pc # "done" /\ ops'[h] # ops[h] =>
            /\ \A e \in DOMAIN domains : e \in DOMAIN domains' /\ domains'[e] = domains[e]
            /\ ops'[h].result # AddOk => domains' = domains

C16_DuplicateAdd == []UniquePerOwner /\ [][DuplicateRefused /\ AddOnlyAdds]_vars

\* A handler has created a row and the other has answered DuplicateDomain to
\* a request for the same owner and domain.
C16_Witness ==
    \E h1, h2 \in Handlers :
        /\ h1 # h2
        /\ ops[h1].op = "add" /\ ops[h1].result = AddOk
        /\ ops[h2].op = "add" /\ ops[h2].result = AddDuplicate
        /\ ops[h1].table = ops[h2].table
        /\ ops[h1].id = ops[h2].id
        /\ ops[h1].domain = ops[h2].domain

\* Two overlapping adds of one domain: both passed the check, one created the
\* row, Create of the other was rejected.
OverlappingAddRejected ==
    \E h1, h2 \in Handlers :
        /\ h1 # h2
        /\ ops[h1].op = "add" /\ ops[h1].result = AddOk
        /\ ops[h2].op = "add" /\ ops[h2].result = AddFailed
        /\ ops[h1].table = ops[h2].table
        /\ ops[h1].id = ops[h2].id
        /\ ops[h1].domain = ops[h2].domain

\* Where requests do not overlap and a statement may return an error: a
\* duplicate add never changes the pool, and answers DuplicateDomain unless
\* the check itself returned the error.
DuplicateAddUnderFaults ==
    [][AddStep =>
         LET o == ops'[1]
         IN  o.domain # "" /\ HostRows(domains, o.table, o.id, o.domain) # {} =>
                 /\ domains' = domains
                 /\ o.result = AddDuplicate \/ budget'.faults = budget.faults - 1]_vars

----------------------------------------------------------------------------
(* C19. Remove versus in-flight rotation: whenever a delete request
   deletes a row, while a rotation of the same server may be running, the row
   has at that moment in_use = 0 and its domain is not the host of its server;
   so no server's host names a domain that was deleted while assigned. *)

\* The step in which handler h runs its Delete.
Deletes(h) == ops[h].op = "delete" /\ ops[h].pc = "delete" /\ ops'[h].pc = "done"

DeletedOnlyWhenFree ==
    \A h \in Handlers :
        Deletes(h) =>
            \A e \in DOMAIN domains \ DOMAIN domains' :
                /\ domains[e].in_use = 0
                /\ ~IsHost(servers, domains[e], domains[e].server_table,
                           domains[e].server_id)

C19_RemoveVersusRotation == [][DeletedOnlyWhenFree]_vars

\* The other interleaving: a row deleted while free, after a transaction
\* selected it from its snapshot, is the host the transaction then commits.
HostOfDeletedRow ==
    \E h \in Handlers : \E k \in DOMAIN servers :
        /\ ops[h].op = "delete" /\ ops[h].result = DeleteOk
        /\ k = <<ops[h].table, ops[h].id>>
        /\ servers[k].host = ops[h].row.domain
        /\ HostRows(domains, k[1], k[2], servers[k].host) = {}

----------------------------------------------------------------------------
(* C20. Cross-record selection: the original statement, that two
   rotations of different records that overlap come to a state in which two
   different records are assigned the same domain ... *)

SharedAssignment ==
    \E k1, k2 \in DOMAIN servers :
        /\ k1 # k2
        /\ servers[k1].host # ""
        /\ servers[k1].host = servers[k2].host

C20_SharedSelection == <>SharedAssignment

\* A transaction that has run its eligible-domain query.
Selected(c) == txn[c].pc \in {"write", "commit"}

(* C20, as the code has it.  Cross-record selection: a rotation selects a
   row of its own server only, so two rotations of different records that
   overlap, both having read their eligible domains before either commits,
   have selected different rows with different domains; no two rows of the
   pool have the same domain, and no two servers have the same non-empty
   host. *)
C20_OwnPoolOnly ==
    /\ \A c \in Callers :
          Selected(c) =>
              /\ txn[c].nextDomain.server_table = Call(c).table
              /\ txn[c].nextDomain.server_id = Call(c).id
    /\ \A c1, c2 \in Callers :
          /\ Selected(c1) /\ Selected(c2)
          /\ <<Call(c1).table, Call(c1).id>> # <<Call(c2).table, Call(c2).id>>
          => /\ txn[c1].nextDomain.id # txn[c2].nextDomain.id
             /\ txn[c1].nextDomain.domain # txn[c2].nextDomain.domain
    /\ \A e1, e2 \in DOMAIN domains :
          domains[e1].domain = domains[e2].domain => e1 = e2
    /\ ~SharedAssignment

\* The sweep and a request, for different servers, have both selected and
\* neither has committed.
C20_Witness ==
    /\ txn["cron"].pc = "write"
    /\ txn["req"].pc = "write"
    /\ <<Call("cron").table, Call("cron").id>> # <<Call("req").table, Call("req").id>>

----------------------------------------------------------------------------
(* C21. Same-record concurrency: when the sweep and an /update-now request
   have rotated, possibly overlapping and possibly the same server, and both
   have finished, then for every server the rows of its pool with in_use = 1
   are exactly the rows its host names, a server whose last status is success
   has exactly one such row, and the pool has every row it had. *)

\* No sweep, no request and no transaction is running.
Quiescent ==
    /\ cron.pc = "idle"
    /\ req.pc = "idle"
    /\ \A c \in Callers : txn[c].pc = "idle"

RowsInUse(D, table, id) == {e \in PoolOf(D, table, id) : D[e].in_use = 1}

C21_SameRecord ==
    Quiescent =>
        /\ DOMAIN domains = 1..(nextId - 1)
        /\ \A k \in DOMAIN servers :
              /\ RowsInUse(domains, k[1], k[2]) = HostRows(domains, k[1], k[2], servers[k].host)
              /\ servers[k].last_update_status = StatusSuccess
                 => Cardinality(RowsInUse(domains, k[1], k[2])) = 1

----------------------------------------------------------------------------
(* C22. Sweep completeness and termination: every run of
   checkAndUpdateServers ends; when it ends, every server of every table that
   had next_update_time <= now when the run began has been called, whatever
   the calls for other servers returned, but for the servers of a table whose
   query returned a store error; and every server that had next_update_time >
   now has its row and its pool rows as they were when the run began. *)

SweepEnds == (cron.pc # "idle") ~> (cron.pc = "idle")

TableIndex(table) == CHOOSE i \in 1..Len(Tables) : Tables[i] = table

\* The servers that were due at `now` in the tables S.
DueAt(S, now) == {k \in DOMAIN S : S[k].next_update_time <= now}

\* A run that ends at once: no table with a readable query has a due server.
NothingDue ==
    budget'.sweeps = budget.sweeps - 1 /\ cron'.pc = "idle" =>
        \/ DueAt(servers, clock) = {}
        \/ /\ budget'.faults = budget.faults - 1
           /\ \E i \in 1..Len(Tables) : \A k \in DueAt(servers, clock) : k[1] = Tables[i]

\* A run that ends after its last status write.
AllDueAttempted ==
    cron.pc = "status" /\ cron'.pc = "idle" =>
        LET due == DueAt(sweepLog.servers, cron.now)
            attempted == DOMAIN sweepLog.committed
            missing == {k \in due \ attempted : TableIndex(k[1]) \notin sweepLog.failed}
        IN  /\ attempted \subseteq due
            /\ \/ missing = {}
               \/ /\ budget'.faults = budget.faults - 1
                  /\ \E i \in (cron.ti + 1)..Len(Tables) : \A k \in missing : k[1] = Tables[i]
            /\ \A k \in DOMAIN servers \ due :
                  /\ servers'[k] = sweepLog.servers[k]
                  /\ OwnerRows(domains', k) = OwnerRows(sweepLog.domains, k)
                  /\ \A e \in OwnerRows(domains', k) : domains'[e] = sweepLog.domains[e]

C22_SweepComplete == SweepEnds /\ [][NothingDue /\ AllDueAttempted]_vars

\* The three calls for a server of the first table failed in this run, and the
\* run is calling a server of the second table.
C22_Witness ==
    /\ cron.pc = "attempt"
    /\ cron.ti = 2
    /\ <<Tables[1], 1>> \in DOMAIN exhaustedAt
    /\ exhaustedAt[<<Tables[1], 1>>] = cron.now

----------------------------------------------------------------------------
(* C23. Rotation lifecycle liveness: with the cron job running every period
   and the clock advancing, a server whose status has been written (rotated or
   failed), and whose next_update_time lies within the periods modelled, is
   due again and is called again by a later run. *)

ServerKeys == {<<Vless, 1>>, <<Shadowsocks, 1>>}

\* The last next_update_time for which a run that reads the table is modelled:
\* each store error can make one run skip the table.
Horizon == StartTime + (MaxPeriodicSweeps - 1 - MaxFaults) * SweepPeriod

Settled(k) ==
    /\ servers[k].last_update_status # <<>>
    /\ servers[k].next_update_time <= Horizon

\* A run is calling k, or has called it and not yet written its status, and k
\* was due when the run began.
Attempting(k) ==
    /\ cron.pc \in {"attempt", "status"}
    /\ <<Tables[cron.ti], Head(cron.queue)>> = k
    /\ k \in DueAt(sweepLog.servers, cron.now)

C23_AttemptedAgain == \A k \in ServerKeys : Settled(k) ~> Attempting(k)

\* A server rotated by the first run is called by a later run.
C23_Witness ==
    \E k \in ServerKeys :
        /\ Attempting(k)
        /\ servers[k].last_update_status = StatusSuccess
        /\ cron.now > StartTime

----------------------------------------------------------------------------
(* C24. Frame of a rotation: a call updateServer(table, id, ...) changes at
   most port, server_port, host and next_update_time of the server (table, id)
   and in_use, last_used_time and order of the pool rows of (table, id); every
   other server, every row of another owner and every other column are as
   before, and the set of pool rows is the same. *)

\* The step is a call of updateServer for k, by the cron job or by /update-now.
CallFor(k) ==
    \/ /\ cron.pc = "attempt"
       /\ cron'.attempt = cron.attempt + 1
       /\ k = <<Tables[cron.ti], Head(cron.queue)>>
    \/ /\ req.pc = "idle"
       /\ req'.pc = "status"
       /\ k = <<req'.table, req'.id>>

FrameOf(k) ==
    /\ DOMAIN servers' = DOMAIN servers
    /\ \A j \in DOMAIN servers :
          servers'[j] = IF j = k
                        THEN [servers[j] EXCEPT !.port = servers'[j].port,
                                                !.server_port = servers'[j].server_port,
                                                !.host = servers'[j].host,
                                                !.next_update_time =
                                                    servers'[j].next_update_time]
                        ELSE servers[j]
    /\ DOMAIN domains' = DOMAIN domains
    /\ \A e \in DOMAIN domains :
          domains'[e] = IF e \in OwnerRows(domains, k)
                        THEN [domains[e] EXCEPT !.in_use = domains'[e].in_use,
                                                !.last_used_time =
                                                    domains'[e].last_used_time,
                                                !.order = domains'[e].order]
                        ELSE domains[e]

C24_Frame == [][\A k \in RequestTargets \cup DOMAIN servers : CallFor(k) => FrameOf(k)]_vars

\* A call by the cron job committed: it released the row of the host it read
\* and claimed another row.
C24_Witness ==
    /\ cron.pc = "status"
    /\ cron.res.how = "commit"
    /\ cron.res.host # ""
    /\ \E e \in HostRows(domains, Tables[cron.ti], Head(cron.queue), cron.res.host) :
          domains[e].in_use = 0
    /\ domains[cron.res.nextDomain.id].in_use = 1

----------------------------------------------------------------------------
(* C25. Port range validity: at every call of updateServer, also one made
   while a POST /set-port-range is between its two assignments, minPort <
   maxPort; and the handler assigns minPort only for a request with positive
   bounds and max > min, a rejected request leaving both globals as they
   were. *)

OnlyValidRangeApplied ==
    minPort' # minPort => minPort' > 0 /\ portReq'.pc = "max" /\ portReq'.max > minPort'

C25_PortRange ==
    [][/\ (\E k \in RequestTargets \cup DOMAIN servers : CallFor(k)) => minPort < maxPort
       /\ OnlyValidRangeApplied]_vars

----------------------------------------------------------------------------
(* C26. Success is reported only after commit: when a call of updateServer has
   returned nil and its caller (the cron job or /update-now) is about to write
   the success status, the call's transaction committed and the server's host
   and server_port differ from those the call read; this includes the calls
   in which rand.Intn panics and the deferred recover rolls back. *)

\* The call whose locals are r, for the server k, returned nil after a commit
\* that changed host and port.
CommittedChange(r, k) ==
    /\ r.how = "commit"
    /\ k \in DOMAIN servers
    /\ servers[k].host # r.host
    /\ servers[k].server_port # r.port

C26_SuccessAfterCommit ==
    /\ cron.pc = "status" /\ cron.res.err = ErrNil =>
          CommittedChange(cron.res, <<Tables[cron.ti], Head(cron.queue)>>)
    /\ req.pc = "status" /\ req.res.err = ErrNil =>
          CommittedChange(req.res, <<req.table, req.id>>)

----------------------------------------------------------------------------
(* C27. Order bump: when a call of updateServer by the cron job has committed,
   the order of the row it claimed is greater than the order of every other
   row of the same owner; and the rows a call may select do not depend on the
   order column: the pool with every order set to 0 gives the same first
   rows. *)

ClaimedOrderIsLargest ==
    cron.pc = "status" /\ cron.res.how = "commit" =>
        LET k == <<Tables[cron.ti], Head(cron.queue)>>
            claimed == cron.res.nextDomain.id
        IN  \A e \in OwnerRows(domains, k) \ {claimed} :
                domains[claimed].order > domains[e].order

\* The pool D with the order column blanked.
WithoutOrder(D) == [e \in DOMAIN D |-> [D[e] EXCEPT !.order = 0]]

\* The ids the query of a call for k at `now` may return first.
FirstRows(D, k, now) ==
    LET E == Eligible(D, k[1], k[2], now, servers[k].host)
    IN  IF E = {} THEN {} ELSE {s[1] : s \in OrderByLastUsed(D, E)}

OrderNotUsed ==
    \A k \in DOMAIN servers :
        FirstRows(domains, k, clock) = FirstRows(WithoutOrder(domains), k, clock)

C27_OrderBump == ClaimedOrderIsLargest /\ OrderNotUsed

----------------------------------------------------------------------------
(* C28. Missing host entry is non-fatal: when updateServer is called for a
   server whose host is non-empty and is the domain of no pool row of that
   server, the call does not return the release error and clears no row's
   in_use; unless a statement returns a store error, no port can be drawn or
   no row is eligible, it commits with an eligible row claimed and made the
   host. *)

\* The locals of the call this step makes, and its `now`.
CallByCron == cron.pc = "attempt" /\ cron'.attempt = cron.attempt + 1
CallRes == IF CallByCron THEN cron'.res ELSE req'.res
CallNow == IF CallByCron THEN cron.now ELSE clock

HostMissing(k) ==
    /\ k \in DOMAIN servers
    /\ servers[k].host # ""
    /\ \A e \in OwnerRows(domains, k) : domains[e].domain # servers[k].host

ProceedsToClaim(k) ==
    LET E == Eligible(domains, k[1], k[2], CallNow, servers[k].host)
    IN  /\ CallRes.err # ErrRelease
        /\ \A e \in DOMAIN domains : domains[e].in_use = 1 => domains'[e].in_use = 1
        /\ (budget'.faults = budget.faults /\ CallRes.how # "panic"
              /\ CallRes.err # ErrPort /\ E # {}) =>
                 /\ CallRes.how = "commit"
                 /\ CallRes.nextDomain.id \in E
                 /\ domains'[CallRes.nextDomain.id].in_use = 1
                 /\ servers'[k].host = domains[CallRes.nextDomain.id].domain

C28_MissingHost ==
    [][\A k \in DOMAIN servers : CallFor(k) /\ HostMissing(k) => ProceedsToClaim(k)]_vars

\* A call for a server whose host had no pool row has committed.
C28_Witness ==
    /\ cron.pc = "status"
    /\ cron.res.how = "commit"
    /\ cron.res.host = "gone.example"
    /\ servers[<<Tables[cron.ti], Head(cron.queue)>>].host = cron.res.nextDomain.domain
    /\ \A e \in DOMAIN domains : domains[e].domain # "gone.example"

====
